---- MODULE Spec2Model ----
(***************************************************************************)
(* A model of the stream consumer of fazpi-qbull (lib/core/QueueWorker.js) *)
(* together with the part of the backing store it reads: one stream, one   *)
(* consumer group and its last-delivered pointer.                          *)
(*                                                                         *)
(* One QueueWorker instance is modelled.  Every action is one run-to-      *)
(* completion step of the JavaScript event loop: the code between two      *)
(* await points (or a timer callback), with every call it makes.           *)
(***************************************************************************)
EXTENDS Integers, Sequences, FiniteSets, TLC

(***************************************************************************)
(* Bounds of the model.                                                    *)
(***************************************************************************)
MaxMsgs == 2          \* messages appended to the stream
MaxStarts == 2        \* calls of start()
MaxWaitTicks == 2     \* gracefulShutdownTimeoutMs, in 250 ms ticks of stop()
MaxDrivers == 2       \* driver (ioredis) instances a RedisClient creates
MaxConnects == 3      \* RedisClient.connect() calls made directly
MaxCalls == 2         \* RedisSingleton.connect() calls told apart
MaxOps == 2           \* set/get/publishToStream calls told apart
MaxQuits == 2         \* disconnect() calls awaiting quit() at one time
MaxSignals == 2       \* SIGINT/SIGTERM deliveries that start a shutdown run
MaxLive == 4          \* messages read and not yet completed, long runs
MaxBatched == 5       \* messages appended while an ordered consumer runs

(***************************************************************************)
(* Values.                                                                 *)
(***************************************************************************)
Undefined == "<undefined>"      \* JavaScript undefined / null
NoTimer == -1                   \* no poll timer is pending
OrderingKeys == {"A", "B"}      \* the ordering keys producers use
ConcurrencyOptions == {1, 2}    \* the values of options.concurrency
Bodies == <<"b1", "b2", "b3", "b4", "b5", "b6">>

\* The field array of the n-th message: the flattened payload the store
\* keeps, with the _orderingKey field the Publisher adds when a key is given.
Fields(k, n) ==
  IF k = Undefined THEN <<"v", Bodies[n]>>
  ELSE <<"v", Bodies[n], "_orderingKey", k>>

Min(a, b) == IF a < b THEN a ELSE b
Max(a, b) == IF a > b THEN a ELSE b

VARIABLES
  concurrency,          \* this.options.concurrency
  processOrderedByKey,  \* this.options.processOrderedByKey
  isStopping,           \* this.isStopping
  activeJobs,           \* this.activeJobs
  pollTimeoutId,        \* the pending poll timer: NoTimer or its delay in ms
  orderingKeyQueues,    \* this.orderingKeyQueues: Map in insertion order
  processingKeys,       \* this.processingKeys
  starting,             \* start() calls awaiting xgroup
  nStartCalls,          \* start() calls made so far
  startRefused,         \* some start() call returned at the line 83 guard
  lastStart,            \* the last start() call to settle after its xgroup call
  reads,                \* outstanding xreadgroup calls: their COUNT arguments
  jobs,                 \* _executeJob invocations not yet settled
  crashed,              \* the process was ended by an unhandled rejection
  handlerStarts,        \* per message id: times jobHandler was invoked
  succeeded,            \* per message id: times jobHandler returned
  failed,               \* per message id: times jobHandler threw
  ackCount,             \* per message id: times xack was called
  stopPc,               \* stop(): "idle", "waiting", "returned"
  stopElapsed,          \* stop(): ticks since stopTime
  stopInFlight,         \* stop(): ids of the jobs in flight when it was called
  stream,               \* store: the stream, a sequence of field arrays
  groupExists,          \* store: the consumer group exists
  groupStart,           \* store: the tail id the group was created at
  lastDelivered         \* store: the group's last-delivered id

workerVars == <<isStopping, activeJobs, pollTimeoutId, orderingKeyQueues,
                processingKeys, starting, reads, jobs, crashed>>
optVars == <<concurrency, processOrderedByKey>>
histVars == <<handlerStarts, succeeded, failed, ackCount>>
stopVars == <<stopPc, stopElapsed, stopInFlight>>
storeVars == <<stream, groupExists, groupStart, lastDelivered>>
startVars == <<nStartCalls, startRefused, lastStart>>

(***************************************************************************)
(* The other parts of the library are modelled further down, each under a  *)
(* specification of its own; here are their variables and the values they  *)
(* rest at while another part runs.                                        *)
(***************************************************************************)
VARIABLES
  ctorArgs,             \* new QueueWorker(...): the arguments of the call
  ctorResult            \* new QueueWorker(...): what the call produced

ctorVars == <<ctorArgs, ctorResult>>

NoCall == [status |-> "none"]

CtorIdle == ctorArgs = NoCall /\ ctorResult = NoCall

VARIABLES
  rcClient,             \* RedisClient.client: 0 for null, else a driver id
  rcIsConnected,        \* RedisClient.isConnected
  rcIsConnecting,       \* RedisClient.isConnecting
  drivers,              \* the ioredis instances created: status, listeners
  attempts,             \* per driver: the promise connect() returned for it
  pollers,              \* promises of connect() calls that found isConnecting,
                        \* each with the driver that was connecting then
  quits,                \* disconnect() calls awaiting client.quit()
  nConnectCalls,        \* RedisClient.connect() calls made
  lastConnect,          \* what the last RedisClient.connect() call did
  rcThrew               \* a RedisClient method threw out of its catch block

clientVars == <<rcClient, rcIsConnected, rcIsConnecting, drivers, attempts,
                pollers, quits, nConnectCalls, lastConnect, rcThrew>>

\* new RedisClient(...), never connected
ClientInit ==
  /\ rcClient = 0
  /\ rcIsConnected = FALSE
  /\ rcIsConnecting = FALSE
  /\ drivers = <<>>
  /\ attempts = <<>>
  /\ pollers = <<>>
  /\ quits = <<>>
  /\ nConnectCalls = 0
  /\ lastConnect = "none"
  /\ rcThrew = FALSE

VARIABLES
  rsPromise,            \* RedisSingleton._connectionPromise: 0 for null, else
                        \* the promise chained on attempt number rsPromise
  chained,              \* attempts whose promise the singleton chained
  callers,              \* RedisSingleton.connect() calls: the promise each
                        \* got and what it settled to (equal calls as one)
  ops,                  \* RedisSingleton set/get/publishToStream calls
  lastConfig            \* the argument of the last RedisSingleton.connect()

singletonVars == <<rsPromise, chained, callers, ops, lastConfig>>

\* the module-level instance right after `new RedisSingleton()`
SingletonInit ==
  /\ rsPromise = 0
  /\ chained = {}
  /\ callers = {}
  /\ ops = {}
  /\ lastConfig = Undefined

VARIABLES
  rcOpLog               \* set/get/publishToStream calls made on the
                        \* RedisClient itself: the connection state each
                        \* found and what became of it (equal calls as one)

opLogVars == <<rcOpLog>>

OpLogInit == rcOpLog = {}

VARIABLES
  pubArgs,              \* publisher.publish(...): the arguments of the call
  pubHeap,              \* the objects of the call: the fields of the
                        \* caller's payload object first, then of the copy
  pubCall,              \* the publishToStream call the publisher made
  pubResult             \* what publish() settled to

pubVars == <<pubArgs, pubHeap, pubCall, pubResult>>

PubIdle ==
  /\ pubArgs = NoCall
  /\ pubHeap = <<>>
  /\ pubCall = NoCall
  /\ pubResult = NoCall

VARIABLES
  shMain,               \* index.js main(): the await it is suspended at
  shWorkers,            \* the three QueueWorkers of index.js, as main and
                        \* gracefulShutdown see them
  shStore,              \* the raw client of the singleton: the status of
                        \* the driver and RedisClient.isConnected
  shRuns,               \* gracefulShutdown() calls suspended at an await
  shDisconnects,        \* redisSingleton.disconnect() calls made by
                        \* gracefulShutdown, with the consumers that were
                        \* constructed and had no stop() returned then
  shExit                \* process.exit(): the code and the run that called

shellVars == <<shMain, shWorkers, shStore, shRuns, shDisconnects, shExit>>

ShellIdle ==
  /\ shMain = NoCall
  /\ shWorkers = <<>>
  /\ shStore = [status |-> "none", isConnected |-> FALSE]
  /\ shRuns = <<>>
  /\ shDisconnects = {}
  /\ shExit = NoCall

\* a store client nobody has used yet
StoreNew == ClientInit /\ SingletonInit /\ OpLogInit

StoreIdle == StoreNew /\ PubIdle /\ ShellIdle

\* everything outside the running consumer
notWorker ==
  <<ctorVars, clientVars, singletonVars, opLogVars, pubVars, shellVars>>

consumerVars == <<optVars, workerVars, startVars, histVars, stopVars, storeVars>>
vars == <<consumerVars, notWorker>>

Ids == 1..MaxMsgs

(***************************************************************************)
(* arrayToObject: ['k1','v1','k2','v2'] -> {k1: v1, k2: v2}; a later       *)
(* occurrence of a field name overwrites an earlier one, and the last      *)
(* name of an array of odd length gets arr[length], which is undefined.    *)
(* The assignment obj[name] = value stores no field for the name           *)
(* "__proto__": it calls the prototype setter, which ignores a value that  *)
(* is a string or undefined.                                               *)
(***************************************************************************)
ProtoName == "__proto__"

arrayToObject(arr) ==
  LET idx == {i \in 1..Len(arr) : i % 2 = 1 /\ arr[i] # ProtoName}
      last(name) == CHOOSE i \in idx :
                      /\ arr[i] = name
                      /\ \A j \in idx : arr[j] = name => j <= i
      at(i) == IF i <= Len(arr) THEN arr[i] ELSE Undefined
  IN [name \in {arr[i] : i \in idx} |-> at(last(name) + 1)]

\* jobData._orderingKey
OrderingKeyOf(jobData) ==
  IF "_orderingKey" \in DOMAIN jobData THEN jobData["_orderingKey"] ELSE Undefined

\* JavaScript truthiness of a string-or-undefined value
Truthy(v) == v # Undefined /\ v # ""

(***************************************************************************)
(* The worker's mutable fields as one record, threaded through the         *)
(* synchronous helpers below.                                              *)
(***************************************************************************)
Worker ==
  [activeJobs |-> activeJobs, orderingKeyQueues |-> orderingKeyQueues,
   processingKeys |-> processingKeys, jobs |-> jobs,
   handlerStarts |-> handlerStarts]

\* Index of `key` in the Map, 0 when absent (Map.has / Map.get)
QueueIndex(queues, key) ==
  IF \E i \in 1..Len(queues) : queues[i].key = key
  THEN CHOOSE i \in 1..Len(queues) : queues[i].key = key
  ELSE 0

RemoveAt(seq, i) == SubSeq(seq, 1, i - 1) \o SubSeq(seq, i + 1, Len(seq))

\* _doPoll, lines 173-176: create the key's FIFO if absent, push the job
Enqueue(queues, key, job) ==
  LET i == QueueIndex(queues, key)
  IN IF i = 0 THEN Append(queues, [key |-> key, queue |-> <<job>>])
     ELSE [queues EXCEPT ![i].queue = Append(@, job)]

\* _executeJob up to its first await: the handler is invoked with
\* (jobData, jobId); `key` is the orderingKey argument (Undefined on the
\* unordered path).
ExecuteJob(w, jobId, jobData, key) ==
  [w EXCEPT
     !.jobs = @ \cup {[jobId |-> jobId, jobData |-> jobData, key |-> key,
                       n |-> w.handlerStarts[jobId] + 1, phase |-> "handler"]},
     !.handlerStarts[jobId] = @ + 1]

\* A faulty line 225 that forgets the busy-key test
KeyEligible_IgnoreBusy(w, entry) ==
  /\ Len(entry.queue) > 0
  /\ w.activeJobs < concurrency

\* _dispatchOrderedJobs, line 225: the test that admits a key
KeyEligible(w, entry) ==
  /\ Len(entry.queue) > 0
  /\ entry.key \notin w.processingKeys
  /\ w.activeJobs < concurrency

\* A faulty line 229 that takes the newest job of the key (queue.pop())
Shift_Last(queue) ==
  [job |-> queue[Len(queue)], rest |-> SubSeq(queue, 1, Len(queue) - 1)]

\* A faulty line 229 that reads the head without removing it (queue[0])
Shift_Peek(queue) == [job |-> Head(queue), rest |-> queue]

\* _dispatchOrderedJobs, line 229: queue.shift()
Shift(queue) == [job |-> Head(queue), rest |-> Tail(queue)]

\* A faulty line 230 that keeps the emptied FIFO in the Map
DispatchEntry_KeepsEmpty(w, i) ==
  LET entry == w.orderingKeyQueues[i]
      sh == Shift(entry.queue)
      w1 == [w EXCEPT
               !.processingKeys = @ \cup {entry.key},
               !.activeJobs = @ + 1,
               !.orderingKeyQueues = [@ EXCEPT ![i].queue = sh.rest]]
  IN ExecuteJob(w1, sh.job.jobId, sh.job.jobData, entry.key)

\* _dispatchOrderedJobs, lines 226-241: admit the head of entry i
DispatchEntry(w, i) ==
  LET entry == w.orderingKeyQueues[i]
      sh == Shift(entry.queue)
      w1 == [w EXCEPT
               !.processingKeys = @ \cup {entry.key},
               !.activeJobs = @ + 1,
               !.orderingKeyQueues =
                  IF Len(sh.rest) = 0 THEN RemoveAt(@, i)
                  ELSE [@ EXCEPT ![i].queue = sh.rest]]
  IN ExecuteJob(w1, sh.job.jobId, sh.job.jobData, entry.key)

\* Evaluate the worker record `w` once and apply Op to its value.  (TLC
\* evaluates an operator argument again at each use; the bound variable of
\* a set constructor holds a value.)
OnValue(Op(_), w) == CHOOSE r \in {Op(x) : x \in {w}} : TRUE

\* _dispatchOrderedJobs, lines 223-245: the for-of loop over the live Map,
\* from entry i on.  Deleting the current entry moves the next one to i.
RECURSIVE DispatchFrom(_, _)
DispatchStep(w, i) ==
  IF i > Len(w.orderingKeyQueues) THEN w
  ELSE LET entry == w.orderingKeyQueues[i]
           can == KeyEligible(w, entry)
           w1 == IF can THEN DispatchEntry(w, i) ELSE w
           next == IF Len(w1.orderingKeyQueues) < Len(w.orderingKeyQueues)
                   THEN i ELSE i + 1
       IN IF w1.activeJobs >= concurrency THEN w1 ELSE DispatchFrom(w1, next)

DispatchFrom(w, i) == OnValue(LAMBDA x : DispatchStep(x, i), w)

\* A faulty line 219 that forgets the isStopping test
DispatchGuard_NoStopCheck == processOrderedByKey

\* _dispatchOrderedJobs, line 219: the early return
DispatchGuard == processOrderedByKey /\ ~isStopping

\* _dispatchOrderedJobs
DispatchOrderedJobs(w) == IF DispatchGuard THEN DispatchFrom(w, 1) ELSE w

\* A faulty line 180 that admits without looking at the pool
SlotFree_Always(w) == TRUE

\* _doPoll, line 180: the unordered path's admission test
SlotFree(w) == w.activeJobs < concurrency

\* _doPoll, line 171: is the message put in a per-key FIFO?
IsKeyed(orderingKey) == processOrderedByKey /\ Truthy(orderingKey)

\* _doPoll, lines 166-197: the loop over the batch, with its break
RECURSIVE ProcessMessages(_, _)
ProcessStep(w, messages) ==
  IF messages = <<>> THEN w
  ELSE LET message == Head(messages)
           jobId == message[1]
           jobData == arrayToObject(message[2])
           orderingKey == OrderingKeyOf(jobData)
       IN IF IsKeyed(orderingKey)
          THEN ProcessMessages(
                 [w EXCEPT !.orderingKeyQueues =
                    Enqueue(@, orderingKey, [jobId |-> jobId, jobData |-> jobData])],
                 Tail(messages))
          ELSE IF SlotFree(w)
               THEN ProcessMessages(
                      ExecuteJob([w EXCEPT !.activeJobs = @ + 1],
                                 jobId, jobData, Undefined),
                      Tail(messages))
               ELSE w

ProcessMessages(w, messages) == OnValue(LAMBDA x : ProcessStep(x, messages), w)

\* A faulty _doPoll without the dispatch of line 198
HandleBatch_NoDispatch(w, messages) == ProcessMessages(w, messages)

\* _doPoll, lines 162-201: what a non-empty batch does to the worker
HandleBatch(w, messages) ==
  LET w1 == ProcessMessages(w, messages)
  IN IF processOrderedByKey THEN DispatchOrderedJobs(w1) ELSE w1

\* A faulty line 239 that leaves the key marked as busy
JobFinally_KeepsKey(w, job) ==
  DispatchOrderedJobs([w EXCEPT !.activeJobs = @ - 1, !.jobs = @ \ {job}])

\* The .finally callbacks of lines 183-189 and 237-241
JobFinally(w, job) ==
  LET w1 == [w EXCEPT !.activeJobs = @ - 1, !.jobs = @ \ {job}]
  IN IF job.key # Undefined
     THEN DispatchOrderedJobs([w1 EXCEPT !.processingKeys = @ \ {job.key}])
     ELSE IF processOrderedByKey THEN DispatchOrderedJobs(w1) ELSE w1

\* Write a threaded worker record back to the variables
Commit(w) ==
  /\ activeJobs' = w.activeJobs
  /\ orderingKeyQueues' = w.orderingKeyQueues
  /\ processingKeys' = w.processingKeys
  /\ jobs' = w.jobs
  /\ handlerStarts' = w.handlerStarts

(***************************************************************************)
(* Timers and delays.                                                      *)
(***************************************************************************)
PollFullDelayMs == 1000     \* _doPoll: pool full, unordered mode
PollErrorDelayMs == 5000    \* _doPoll: xreadgroup failed
\* A faulty line 212 that waits as long as for a full pool
PollNextDelayMs_Later == PollFullDelayMs
PollNextDelayMs == 0        \* _doPoll: next cycle

\* _scheduleNextPoll(delayMs): the pending timer afterwards, given the one
\* pending before (clearTimeout of the previous one, then setTimeout)
ScheduleNextPoll(delayMs, pending) == IF isStopping THEN pending ELSE delayMs

\* A faulty line 124 that forgets the isStopping test
PollGuard_NoStopCheck == TRUE

\* _doPoll, line 124: the early return
PollGuard == ~isStopping

\* A faulty line 145 that asks for one message more
FetchCount_OneMore ==
  IF processOrderedByKey THEN concurrency + 1
  ELSE Max(1, concurrency - activeJobs) + 1

\* _doPoll, line 145
FetchCount ==
  IF processOrderedByKey THEN concurrency
  ELSE Max(1, concurrency - activeJobs)

\* _doPoll up to its await (lines 123-155), entered with `pending` as the
\* pending timer: it returns, reschedules, or issues one xreadgroup.
DoPoll(pending) ==
  IF ~PollGuard
  THEN /\ reads' = reads
       /\ pollTimeoutId' = pending
  ELSE IF concurrency - activeJobs <= 0 /\ ~processOrderedByKey
       THEN /\ reads' = reads
            /\ pollTimeoutId' = ScheduleNextPoll(PollFullDelayMs, pending)
       ELSE /\ reads' = Append(reads, FetchCount)
            /\ pollTimeoutId' = pending

\* The consumer after construction
WorkerInit ==
  /\ concurrency \in ConcurrencyOptions
  /\ processOrderedByKey \in BOOLEAN
  /\ isStopping = FALSE
  /\ activeJobs = 0
  /\ pollTimeoutId = NoTimer
  /\ orderingKeyQueues = <<>>
  /\ processingKeys = {}
  /\ starting = 0
  /\ nStartCalls = 0
  /\ startRefused = FALSE
  /\ lastStart = [reply |-> "none", result |-> "none"]
  /\ reads = <<>>
  /\ jobs = {}
  /\ crashed = FALSE
  /\ handlerStarts = [id \in Ids |-> 0]
  /\ succeeded = [id \in Ids |-> 0]
  /\ failed = [id \in Ids |-> 0]
  /\ ackCount = [id \in Ids |-> 0]
  /\ stopPc = "idle"
  /\ stopElapsed = 0
  /\ stopInFlight = {}
  /\ stream = <<>>
  /\ groupExists = FALSE
  /\ groupStart = 0
  /\ lastDelivered = 0

Init == WorkerInit /\ CtorIdle /\ StoreIdle

(***************************************************************************)
(* The environment: a producer appends a message (XADD).                   *)
(***************************************************************************)
Publish(k) ==
  /\ Len(stream) < MaxMsgs
  /\ stream' = Append(stream, Fields(k, Len(stream) + 1))
  /\ UNCHANGED <<notWorker, optVars, workerVars, startVars, histVars, stopVars,
                 groupExists, groupStart, lastDelivered>>

(***************************************************************************)
(* start(), lines 82-94: the guard, then the xgroup CREATE call.           *)
(***************************************************************************)
\* A faulty line 83 that forgets the isStopping test
StartGuard_NoStopCheck == TRUE

\* start(), line 83
StartGuard == ~isStopping

StartCall ==
  /\ ~crashed
  /\ nStartCalls < MaxStarts
  /\ nStartCalls' = nStartCalls + 1
  /\ starting' = IF StartGuard THEN starting + 1 ELSE starting
  /\ startRefused' = (startRefused \/ ~StartGuard)
  /\ UNCHANGED <<notWorker, optVars, crashed, lastStart, isStopping, activeJobs, pollTimeoutId,
                 orderingKeyQueues, processingKeys, reads, jobs, histVars,
                 stopVars, storeVars>>

(***************************************************************************)
(* start(), lines 95-106: xgroup settles.  "OK" creates the group at the   *)
(* tail ('$'); "BUSYGROUP" is absorbed; any other error is rethrown and    *)
(* no poll starts.                                                         *)
(***************************************************************************)
\* A faulty line 98 that rethrows the "group already exists" error too
StartAbsorbs_OnlyOK(outcome) == outcome = "OK"

\* start(), lines 94-104: does start() go on to line 106 after this reply?
StartAbsorbs(outcome) == outcome \in {"OK", "BUSYGROUP"}

XGroupReturn(outcome) ==
  /\ ~crashed
  /\ starting > 0
  /\ starting' = starting - 1
  /\ \/ /\ outcome = "OK"
        /\ ~groupExists
        /\ groupExists' = TRUE
        /\ groupStart' = Len(stream)
        /\ lastDelivered' = Len(stream)
     \/ /\ outcome = "BUSYGROUP"
        /\ groupExists
        /\ UNCHANGED <<groupExists, groupStart, lastDelivered>>
     \/ /\ outcome = "ERR"
        /\ UNCHANGED <<groupExists, groupStart, lastDelivered>>
  /\ IF StartAbsorbs(outcome)
     THEN /\ DoPoll(pollTimeoutId)
          /\ lastStart' = [reply |-> outcome, result |-> "resolved"]
     ELSE /\ UNCHANGED <<reads, pollTimeoutId>>
          /\ lastStart' = [reply |-> outcome, result |-> "rejected"]
  /\ UNCHANGED <<notWorker, optVars, crashed, isStopping, activeJobs, orderingKeyQueues,
                 processingKeys, jobs, nStartCalls, startRefused, histVars,
                 stopVars, stream>>

(***************************************************************************)
(* The poll timer fires: _doPoll runs.                                     *)
(***************************************************************************)
TimerFire ==
  /\ ~crashed
  /\ pollTimeoutId # NoTimer
  /\ DoPoll(NoTimer)
  /\ UNCHANGED <<notWorker, optVars, crashed, isStopping, activeJobs, orderingKeyQueues,
                 processingKeys, starting, jobs, startVars, histVars,
                 stopVars, storeVars>>

(***************************************************************************)
(* An xreadgroup call settles, lines 150-213.  The store hands over the    *)
(* next never-delivered messages, at most COUNT; with none available the   *)
(* call times out with an empty result.                                    *)
(***************************************************************************)
\* The batch the store returns for a read with COUNT `count`
ReadBatch(count) ==
  LET n == Min(count, Len(stream) - lastDelivered)
  IN [i \in 1..n |-> <<lastDelivered + i, stream[lastDelivered + i]>>]

\* A faulty line 157 that forgets the isStopping test after the block
StoppedPostBlock_Never == FALSE

\* _doPoll, line 157: the test made when xreadgroup has returned
StoppedPostBlock == isStopping

PollReturn(r) ==
  /\ ~crashed
  /\ r \in 1..Len(reads)
  /\ groupExists
  /\ LET messages == ReadBatch(reads[r])
     IN /\ lastDelivered' = lastDelivered + Len(messages)
        /\ reads' = RemoveAt(reads, r)
        /\ IF StoppedPostBlock
           THEN UNCHANGED <<activeJobs, orderingKeyQueues, processingKeys,
                            jobs, handlerStarts, pollTimeoutId>>
           ELSE /\ Commit(IF Len(messages) > 0
                          THEN HandleBatch(Worker, messages) ELSE Worker)
                /\ pollTimeoutId' = ScheduleNextPoll(PollNextDelayMs, pollTimeoutId)
  /\ UNCHANGED <<notWorker, optVars, crashed, isStopping, starting, startVars, succeeded,
                 failed, ackCount, stopVars, stream, groupExists, groupStart>>

\* xreadgroup rejects (line 205): nothing is delivered, retry in 5 s
PollError(r) ==
  /\ ~crashed
  /\ r \in 1..Len(reads)
  /\ reads' = RemoveAt(reads, r)
  /\ pollTimeoutId' = ScheduleNextPoll(PollErrorDelayMs, pollTimeoutId)
  /\ UNCHANGED <<notWorker, optVars, crashed, isStopping, activeJobs, orderingKeyQueues,
                 processingKeys, starting, jobs, startVars, histVars,
                 stopVars, storeVars>>

(***************************************************************************)
(* _executeJob, lines 259-276: the handler settles.                        *)
(*   "ok"             it returned a value JSON.stringify accepts           *)
(*   "unserializable" it returned a value JSON.stringify throws on         *)
(*                    (a circular object, a BigInt): line 261 throws       *)
(*                    inside the outer try                                 *)
(*   "unserializableNullish"                                               *)
(*                    it returned a value on which JSON.stringify throws   *)
(*                    undefined or null (a toJSON method or a getter that  *)
(*                    does `throw null`): line 261 throws that value       *)
(*                    inside the outer try                                 *)
(*   "throw"          it threw / rejected with an Error                    *)
(*   "throwNullish"   it threw / rejected with undefined or null           *)
(*                    (`reject()`, `throw null`)                           *)
(***************************************************************************)
HandlerOutcomes ==
  {"ok", "unserializable", "unserializableNullish", "throw", "throwNullish"}

\* the handler itself failed
HandlerFails(outcome) == outcome \in {"throw", "throwNullish"}

\* _executeJob, lines 260-264: is xack called after this handler outcome?
AcksAfter(outcome) == outcome = "ok"

\* _executeJob, line 272: the catch block reads error.message, a TypeError
\* when the value caught is undefined or null, whether the handler threw it
\* or line 261 did; _executeJob then rejects, and after the caller's
\* .finally nothing handles the rejection.
CatchThrows(outcome) == outcome \in {"throwNullish", "unserializableNullish"}

\* What an unhandled rejection does to the process: it ends it (the
\* runtime's default), or it is only reported (the host set the runtime's
\* unhandled-rejections mode to warn or listens for the event).
UnhandledRejectionEnds == BOOLEAN

HandlerDone(job, outcome) ==
  /\ ~crashed
  /\ job \in jobs
  /\ job.phase = "handler"
  /\ succeeded' = IF HandlerFails(outcome) THEN succeeded
                  ELSE [succeeded EXCEPT ![job.jobId] = @ + 1]
  /\ failed' = IF HandlerFails(outcome)
               THEN [failed EXCEPT ![job.jobId] = @ + 1]
               ELSE failed
  /\ IF AcksAfter(outcome)
     THEN /\ ackCount' = [ackCount EXCEPT ![job.jobId] = @ + 1]
          /\ jobs' = (jobs \ {job}) \cup {[job EXCEPT !.phase = "ack"]}
          /\ UNCHANGED <<activeJobs, orderingKeyQueues, processingKeys,
                         handlerStarts>>
     ELSE /\ ackCount' = ackCount
          /\ Commit(JobFinally(Worker, job))
  /\ IF CatchThrows(outcome)
     THEN crashed' \in UnhandledRejectionEnds
     ELSE crashed' = FALSE
  /\ UNCHANGED <<notWorker, optVars, isStopping, pollTimeoutId, starting, reads,
                 startVars, stopVars, storeVars>>

(***************************************************************************)
(* _executeJob, lines 264-270, then the caller's .finally: xack settles.   *)
(***************************************************************************)
AckDone(job, outcome) ==
  /\ ~crashed
  /\ job \in jobs
  /\ job.phase = "ack"
  /\ outcome \in {"OK", "ERR"}
  /\ Commit(JobFinally(Worker, job))
  /\ UNCHANGED <<notWorker, optVars, crashed, isStopping, pollTimeoutId, starting, reads,
                 startVars, succeeded, failed, ackCount, stopVars,
                 storeVars>>

(***************************************************************************)
(* stop(), lines 282-313.                                                  *)
(***************************************************************************)
\* stop(), line 293: the loop condition, `elapsed` in ticks of 250 ms
StopWaits(active, elapsed) == active > 0 /\ elapsed < MaxWaitTicks

StopCall ==
  /\ ~crashed
  /\ stopPc = "idle"
  /\ isStopping' = TRUE
  /\ pollTimeoutId' = NoTimer
  /\ stopElapsed' = 0
  /\ stopInFlight' = {j.jobId : j \in jobs}
  /\ stopPc' = IF StopWaits(activeJobs, 0) THEN "waiting" ELSE "returned"
  /\ UNCHANGED <<notWorker, optVars, crashed, activeJobs, orderingKeyQueues,
                 processingKeys, starting, reads, jobs, startVars, histVars, storeVars>>

\* the 250 ms pause of line 295 ends and the loop condition is tested again
StopTick ==
  /\ ~crashed
  /\ stopPc = "waiting"
  /\ stopElapsed' = stopElapsed + 1
  /\ stopPc' = IF StopWaits(activeJobs, stopElapsed + 1)
               THEN "waiting" ELSE "returned"
  /\ UNCHANGED <<notWorker, optVars, workerVars, startVars, histVars, stopInFlight,
                 storeVars>>

Next ==
  \/ \E k \in OrderingKeys \cup {Undefined} : Publish(k)
  \/ StartCall
  \/ \E outcome \in {"OK", "BUSYGROUP", "ERR"} : XGroupReturn(outcome)
  \/ TimerFire
  \/ \E r \in 1..Len(reads) : PollReturn(r)
  \/ \E r \in 1..Len(reads) : PollError(r)
  \/ \E job \in jobs, outcome \in HandlerOutcomes : HandlerDone(job, outcome)
  \/ \E job \in jobs, outcome \in {"OK", "ERR"} : AckDone(job, outcome)
  \/ StopCall
  \/ StopTick

Spec == Init /\ [][Next]_vars

TypeOK ==
  /\ concurrency \in ConcurrencyOptions
  /\ processOrderedByKey \in BOOLEAN
  /\ isStopping \in BOOLEAN
  /\ activeJobs \in Int
  /\ pollTimeoutId \in {NoTimer, PollNextDelayMs, PollFullDelayMs, PollErrorDelayMs}
  /\ starting \in 0..MaxStarts
  /\ nStartCalls \in 0..MaxStarts
  /\ stopPc \in {"idle", "waiting", "returned"}
  /\ crashed \in BOOLEAN
  /\ lastDelivered \in 0..Len(stream)

(***************************************************************************)
(* The same system with the scheduling the runtime and the claims'         *)
(* assumptions give: timers fire, outstanding calls settle, handlers       *)
(* terminate, and reads succeed again and again.                           *)
(***************************************************************************)
FairSpec ==
  /\ Spec
  /\ WF_vars(TimerFire)
  /\ WF_vars(StopTick)
  /\ WF_vars(\E outcome \in {"OK", "BUSYGROUP", "ERR"} : XGroupReturn(outcome))
  /\ SF_vars(\E r \in 1..Len(reads) : PollReturn(r))
  /\ WF_vars(\E job \in jobs, outcome \in HandlerOutcomes : HandlerDone(job, outcome))
  /\ WF_vars(\E job \in jobs, outcome \in {"OK", "ERR"} : AckDone(job, outcome))

(***************************************************************************)
(* Vocabulary of the properties.                                           *)
(***************************************************************************)
\* the ordering key the message with this id carries (Undefined if none)
KeyOfId(id) == OrderingKeyOf(arrayToObject(stream[id]))

\* the store has handed message `id` to the consumer group's reader
Delivered(id) == groupExists /\ groupStart < id /\ id <= lastDelivered

\* the jobs in flight whose message carries ordering key k
JobsOfKey(k) == {j \in jobs : OrderingKeyOf(j.jobData) = k}

\* the ids waiting in the per-key FIFOs
QueuedIds ==
  UNION {{orderingKeyQueues[i].queue[n].jobId :
            n \in 1..Len(orderingKeyQueues[i].queue)} :
         i \in 1..Len(orderingKeyQueues)}

(***************************************************************************)
(* C1. In every reachable state 0 <= activeJobs <= concurrency, and no     *)
(* more than `concurrency` handler invocations are in flight: with         *)
(* concurrency 1 no two invocations overlap.                               *)
(***************************************************************************)
C1_InFlightBounded ==
  /\ 0 <= activeJobs
  /\ activeJobs <= concurrency
  /\ Cardinality(jobs) <= concurrency

\* the pool is full while a key that is not busy has a message waiting
C1_Witness ==
  /\ activeJobs = concurrency
  /\ \E i \in 1..Len(orderingKeyQueues) :
       orderingKeyQueues[i].key \notin processingKeys

(***************************************************************************)
(* C2. In ordered mode, for every ordering key at most one job whose       *)
(* message carries that key is in flight.                                  *)
(***************************************************************************)
C2_OneJobPerKey ==
  processOrderedByKey =>
    \A k \in OrderingKeys : Cardinality(JobsOfKey(k)) <= 1

\* a key's job is in flight, its FIFO entry was removed when it was
\* dispatched, and a later message of the key has created a new entry
C2_Witness ==
  /\ processOrderedByKey
  /\ activeJobs < concurrency
  /\ \E j \in jobs, i \in 1..Len(orderingKeyQueues) :
       j.key = orderingKeyQueues[i].key

(***************************************************************************)
(* C3 as stated.  In ordered mode, when the handler of a message starts,   *)
(* the handler of every earlier message of the same key that the group's   *)
(* reader was handed has already been started in an earlier step.          *)
(***************************************************************************)
C3_PerKeyStartOrder ==
  [][processOrderedByKey =>
       \A m1, m2 \in 1..Len(stream) :
         ( /\ handlerStarts'[m2] > handlerStarts[m2]
           /\ m1 < m2
           /\ Delivered(m1)'
           /\ Truthy(KeyOfId(m1))
           /\ KeyOfId(m1) = KeyOfId(m2) )
         => handlerStarts[m1] > 0]_vars

(***************************************************************************)
(* C4. Every handler invocation that completes successfully is followed    *)
(* by exactly one xack for its id, issued when it completes, and a failed  *)
(* invocation by none: per id, the acks issued equal the successful        *)
(* completions.                                                            *)
(***************************************************************************)
C4_AckOncePerSuccess ==
  \A id \in Ids : ackCount[id] = succeeded[id]

\* The part of C4 that the code does keep: never more acks than successes,
\* and none while the handler has not yet completed.
C4_AckOnlyAfterSuccess ==
  \A id \in Ids : ackCount[id] <= succeeded[id]

\* a handler returned, its job has settled, and no xack was called for it
C4_Witness ==
  \E id \in Ids :
    /\ succeeded[id] = 1
    /\ failed[id] = 0
    /\ ackCount[id] = 0
    /\ \A j \in jobs : j.jobId # id

(***************************************************************************)
(* C5. At-least-once: every message the store has handed to the group's   *)
(* reader is eventually passed to the handler, unless the consumer is      *)
(* stopped or its process has ended (the claim then counts on a consumer   *)
(* started later).                                                         *)
(***************************************************************************)
C5_AtLeastOnce ==
  \A id \in Ids :
    Delivered(id) ~> (handlerStarts[id] > 0 \/ isStopping \/ crashed)

\* a running consumer was handed a message that it neither passed to the
\* handler nor keeps in a FIFO, and the pool it was full for has drained
C5_Witness ==
  /\ ~isStopping
  /\ ~crashed
  /\ nStartCalls = 1
  /\ jobs = {}
  /\ \E id \in Ids :
       /\ Delivered(id)
       /\ handlerStarts[id] = 0
       /\ id \notin QueuedIds

(***************************************************************************)
(* C6. Once isStopping is set, no step issues a new xreadgroup call.       *)
(***************************************************************************)
C6_NoReadAfterStop ==
  [][isStopping => Len(reads') <= Len(reads)]_vars

\* the consumer ran, stop() returned, every callback has settled, and
\* messages nobody reads remain in the stream
C6_Witness ==
  /\ stopPc = "returned"
  /\ groupExists
  /\ starting = 0
  /\ reads = <<>>
  /\ pollTimeoutId = NoTimer
  /\ lastDelivered < Len(stream)

(***************************************************************************)
(* C7. Once isStopping is set, no step starts a handler, and the per-key   *)
(* FIFOs are frozen: what they hold is never dispatched nor acked.         *)
(***************************************************************************)
C7_NoHandlerAfterStop ==
  [][isStopping =>
       /\ handlerStarts' = handlerStarts
       /\ orderingKeyQueues' = orderingKeyQueues
       /\ \A id \in QueuedIds : ackCount'[id] = 0]_vars

\* stopped with an idle pool and a message still waiting in a FIFO
C7_Witness ==
  /\ isStopping
  /\ activeJobs = 0
  /\ reads = <<>>
  /\ orderingKeyQueues # <<>>

(***************************************************************************)
(* C8. stop() returns only with activeJobs = 0 or the timeout elapsed;     *)
(* and when it returns before the timeout, every job in flight at the      *)
(* stop call has completed and each successful one has been acked.         *)
(***************************************************************************)
C8_StopDrains ==
  stopPc = "returned" =>
    /\ activeJobs = 0 \/ stopElapsed >= MaxWaitTicks
    /\ stopElapsed < MaxWaitTicks =>
         \A id \in stopInFlight :
           /\ \A j \in jobs : j.jobId # id
           /\ succeeded[id] > 0 => ackCount[id] > 0

\* The part of C8 that the code does keep.
C8_StopReturnCondition ==
  stopPc = "returned" =>
    /\ activeJobs = 0 \/ stopElapsed >= MaxWaitTicks
    /\ stopElapsed < MaxWaitTicks => jobs = {}

\* stop() waited for a handler that returned, and returned before the
\* timeout with no xack issued for it
C8_Witness ==
  /\ stopPc = "returned"
  /\ stopElapsed \in 1..(MaxWaitTicks - 1)
  /\ \E id \in stopInFlight : succeeded[id] > 0 /\ ackCount[id] = 0

\* stop() terminates, unless the process ends first
C8_StopTerminates ==
  (stopPc = "waiting") ~> (stopPc = "returned" \/ crashed)

(***************************************************************************)
(* C9. No message is passed to the handler more than once, every job in    *)
(* flight carries the payload the store keeps under the job's id, and an   *)
(* id is acked only after a handler invocation for that id.                *)
(***************************************************************************)
C9_AtMostOnceExactId ==
  /\ \A id \in Ids : handlerStarts[id] <= 1
  /\ \A id \in Ids : ackCount[id] <= handlerStarts[id]
  /\ \A j \in jobs :
       /\ j.jobId \in 1..Len(stream)
       /\ Delivered(j.jobId)
       /\ j.jobData = arrayToObject(stream[j.jobId])

\* a message was handled once and acked once, nothing is in flight or
\* waiting, and the consumer goes on polling
C9_Witness ==
  /\ ~isStopping
  /\ ~crashed
  /\ jobs = {}
  /\ orderingKeyQueues = <<>>
  /\ lastDelivered = Len(stream)
  /\ \E id \in Ids : handlerStarts[id] = 1 /\ ackCount[id] = 1

(***************************************************************************)
(* C11. When the xgroup call of start() settles: on "group already exists" *)
(* start() resolves and, the consumer not being stopped meanwhile, the     *)
(* poll loop begins (a read is issued, or with a full pool a poll is       *)
(* scheduled); on any other error start() rejects, and that step issues no *)
(* read and schedules no poll.                                             *)
(***************************************************************************)
C11_StartGroupErrors ==
  [][starting' < starting =>
       /\ lastStart'.reply = "BUSYGROUP" =>
            /\ lastStart'.result = "resolved"
            /\ ~isStopping =>
                 \/ Len(reads') = Len(reads) + 1
                 \/ pollTimeoutId' = PollFullDelayMs
       /\ lastStart'.reply = "ERR" =>
            /\ lastStart'.result = "rejected"
            /\ reads' = reads
            /\ pollTimeoutId' = pollTimeoutId]_vars

\* the last start() absorbed "group already exists" and two reads are
\* outstanding: its own beside an earlier loop's
C11_Witness ==
  /\ lastStart.reply = "BUSYGROUP"
  /\ Len(reads) = 2
  /\ nStartCalls = MaxStarts

\* a start() was rejected and nothing polls
C11_WitnessRejected ==
  /\ lastStart = [reply |-> "ERR", result |-> "rejected"]
  /\ ~isStopping
  /\ starting = 0
  /\ reads = <<>>
  /\ pollTimeoutId = NoTimer

(***************************************************************************)
(* C10. A start() call made while isStopping is set changes nothing: no    *)
(* xgroup call, no timer, no xreadgroup, no field of the worker.           *)
(***************************************************************************)
C10_StartAfterStopNoOp ==
  [][(isStopping /\ nStartCalls' # nStartCalls) =>
       /\ startRefused'
       /\ UNCHANGED <<workerVars, histVars, stopVars, storeVars>>]_vars

\* start() was refused on a consumer that had run and was stopped, with
\* messages left to read
C10_Witness ==
  /\ isStopping
  /\ startRefused
  /\ groupExists
  /\ lastDelivered < Len(stream)

(***************************************************************************)
(* C12. The poll loop survives errors: a step in which a handler fails     *)
(* leaves the process running, the outstanding reads and the scheduled     *)
(* poll as they are, and the result of start() untouched.                  *)
(***************************************************************************)
C12_HandlerFailureContained ==
  [][(\E id \in Ids : failed'[id] > failed[id]) =>
       /\ ~crashed'
       /\ reads' = reads
       /\ pollTimeoutId' = pollTimeoutId
       /\ lastStart' = lastStart]_vars

\* The part of C12 that the code does keep: after a failed read the retry
\* timer is pending, and a read is issued again unless the consumer is
\* stopped or its process has ended.
C12_ReadFailureRetried ==
  (pollTimeoutId = PollErrorDelayMs) ~>
    (Len(reads) > 0 \/ isStopping \/ crashed)

\* a running consumer with a poll scheduled was ended by a handler failure
C12_Witness ==
  /\ crashed
  /\ ~isStopping
  /\ pollTimeoutId # NoTimer
  /\ \E id \in Ids : failed[id] > 0

(***************************************************************************)
(* new QueueWorker(redisClient, queueName, jobHandler, options), lines     *)
(* 30-77.  Strings are sequences of characters; a JavaScript value is a    *)
(* record [kind, n] with n the number when kind = "int".                   *)
(***************************************************************************)
JsVal(kind, n) == [kind |-> kind, n |-> n]
Absent == JsVal("absent", 0)       \* the option is not given
JsUndefined == JsVal("undefined", 0)
JsNull == JsVal("null", 0)
JsNaN == JsVal("NaN", 0)           \* typeof NaN is 'number'
JsString == JsVal("string", 0)     \* a string such as "4"
JsInt(n) == JsVal("int", n)

ConcurrencyInputs ==
  {Absent, JsUndefined, JsNull, JsNaN, JsString} \cup {JsInt(n) : n \in -1..3}
RedisClientInputs == {"streams", "noStreamCommands", Undefined}
NotAString == <<Undefined>>        \* an argument that is not a string
QueueNameInputs ==
  {<<"q">>, <<" ", "q", " ">>, <<"q", " ", "x">>, <<" ">>, <<>>, NotAString}
JobHandlerInputs == {"function", "notFunction"}

\* String.prototype.trim
RECURSIVE TrimLeft(_)
TrimLeft(str) ==
  IF str # <<>> /\ Head(str) = " " THEN TrimLeft(Tail(str)) ELSE str

RECURSIVE TrimRight(_)
TrimRight(str) ==
  IF str # <<>> /\ str[Len(str)] = " "
  THEN TrimRight(SubSeq(str, 1, Len(str) - 1)) ELSE str

Trim(str) == TrimRight(TrimLeft(str))

\* typeof v === 'number'
IsNumber(v) == v.kind \in {"int", "NaN"}

\* v < 1 for a number (every comparison with NaN is false)
LessThanOne(v) == v.kind = "int" /\ v.n < 1

\* lines 49-56: the defaults, overridden by the options given
MergedConcurrency(given) == IF given = Absent THEN JsInt(1) ELSE given

\* line 59: the test that sends the constructor to the coercion branch
ConcurrencyInvalid(v) == ~IsNumber(v) \/ LessThanOne(v)

\* A constructor that creates its logger before validating the options
\* Is this.logger assigned when line 60 uses it?  It is assigned at line 65.
LoggerReadyAtValidation == FALSE

Thrown(error) == [status |-> "threw", error |-> error]

\* the constructor: the error it throws or the consumer it builds
QueueWorkerConstructor(redisClient, queueName, jobHandler, conc, ordered) ==
  IF redisClient # "streams" THEN Thrown("Error: redisClient")
  ELSE IF queueName = NotAString \/ queueName = <<>> \/ Trim(queueName) = <<>>
  THEN Thrown("Error: queueName")
  ELSE IF jobHandler # "function" THEN Thrown("Error: jobHandler")
  ELSE LET merged == MergedConcurrency(conc)
       IN IF ConcurrencyInvalid(merged) /\ ~LoggerReadyAtValidation
          THEN Thrown("TypeError: this.logger is undefined")
          ELSE [status |-> "constructed",
                queueName |-> Trim(queueName),
                concurrency |-> IF ConcurrencyInvalid(merged) THEN JsInt(1)
                                ELSE merged,
                processOrderedByKey |-> ordered,
                isStopping |-> FALSE,
                activeJobs |-> 0,
                pollTimeoutId |-> NoTimer,
                hasOrderingKeyQueues |-> ordered]

CtorInit ==
  /\ WorkerInit
  /\ concurrency = 1
  /\ processOrderedByKey = FALSE
  /\ ctorResult = NoCall
  /\ StoreIdle
  /\ ctorArgs \in [status : {"called"},
                   redisClient : RedisClientInputs,
                   queueName : QueueNameInputs,
                   jobHandler : JobHandlerInputs,
                   concurrency : ConcurrencyInputs,
                   processOrderedByKey : BOOLEAN]

Construct ==
  /\ ctorResult = NoCall
  /\ ctorResult' = QueueWorkerConstructor(ctorArgs.redisClient,
                     ctorArgs.queueName, ctorArgs.jobHandler,
                     ctorArgs.concurrency, ctorArgs.processOrderedByKey)
  /\ UNCHANGED <<consumerVars, ctorArgs, clientVars, singletonVars, opLogVars,
                 pubVars, shellVars>>

CtorNext == Construct

CtorSpec == CtorInit /\ [][CtorNext]_vars

\* the other arguments pass validation
CtorOtherArgsValid ==
  /\ ctorArgs.redisClient = "streams"
  /\ ctorArgs.queueName # NotAString
  /\ Trim(ctorArgs.queueName) # <<>>
  /\ ctorArgs.jobHandler = "function"

\* the concurrency option given fails the test of line 59: its typeof is
\* not 'number', or it is less than 1 (NaN passes: typeof NaN is 'number'
\* and NaN < 1 is false)
CtorConcurrencyBad ==
  ConcurrencyInvalid(MergedConcurrency(ctorArgs.concurrency))

(***************************************************************************)
(* C13. Constructing a consumer with a concurrency option that is not a    *)
(* number or is less than 1 succeeds, with effective concurrency 1.        *)
(***************************************************************************)
C13_BadConcurrencyCoerced ==
  (ctorResult # NoCall /\ CtorOtherArgsValid /\ CtorConcurrencyBad) =>
     /\ ctorResult.status = "constructed"
     /\ ctorResult.concurrency = JsInt(1)

\* concurrency 0 was given with valid arguments and the constructor threw
\* on its own logger
C13_Witness ==
  /\ CtorOtherArgsValid
  /\ ctorArgs.concurrency = JsInt(0)
  /\ ctorResult = Thrown("TypeError: this.logger is undefined")


(***************************************************************************)
(* RedisClient (src/unnamed/part_001) and RedisSingleton                   *)
(* (src/lib/core/RedisSingleton.js, lines 106-227).                        *)
(* A driver is one `new Redis(options)` instance.  Its status is what the  *)
(* driver is doing ("connecting" covers the first handshake and every      *)
(* automatic reconnect of the default retry strategy, "ready", "end" after *)
(* disconnect()/quit()); its listeners are the callbacks still attached.   *)
(* The 'connect' listener only logs and is left out.  Promise reactions    *)
(* run as microtasks of the task that settles the promise, so they belong  *)
(* to the action of that task.                                             *)
(***************************************************************************)
notStore == <<consumerVars, ctorVars, opLogVars, pubVars, shellVars>>

\* the same without the result of publish()
notStoreNorResult ==
  <<consumerVars, ctorVars, opLogVars, pubArgs, pubHeap, pubCall, shellVars>>

\* who made a set/get/publishToStream call on the singleton: application
\* code, or Publisher.publish at its line 46
Application == "application"
ThePublisher == "publisher"

\* the publishToStream call that publish() made, among the operations `os`
OpsOfPublish(os) == {o \in os : o.by = ThePublisher}

\* Publisher.publish, lines 46-51: a publish() suspended on
\* publishToStream rejects in the task in which that call of its own fails
\* (the catch is a reaction of its promise), with the error of the call;
\* `os` are the singleton's operations after the step
PublishAfterStore(result, os) ==
  IF result = [status |-> "awaiting", error |-> "none"]
       /\ \E o \in OpsOfPublish(os) : o.state = "failed"
    THEN [status |-> "rejected",
          error |-> (CHOOSE o \in OpsOfPublish(os) : o.state = "failed").error]
    ELSE result

ConnectListeners == {"ready", "errorOnce", "close", "error"}

\* config.REDIS_HOST .. config.REDIS_DB, read once by the constructor
AmbientConfig == "h1"

\* what a caller may pass to connect(); the method declares no parameter
ConfigInputs == {Undefined, "h1", "h2"}

NewDriver ==
  [status |-> "connecting", listeners |-> ConnectListeners,
   config |-> AmbientConfig]

DriverIds == 1..Len(drivers)

\* client.removeAllListeners()
RemoveAllListeners(ds, d) == [ds EXCEPT ![d].listeners = {}]

\* client.disconnect(): the driver closes and does not reconnect
DriverDisconnect(ds, d) == [ds EXCEPT ![d].status = "end"]

\* lines 42-51: the old instance is stripped and closed before a new attempt
CleanupOld(ds, c) ==
  IF c = 0 THEN ds ELSE DriverDisconnect(RemoveAllListeners(ds, c), c)

\* connect(), third branch (lines 39-119): a new driver and its promise
StartAttempt ==
  /\ Len(drivers) < MaxDrivers
  /\ rcIsConnecting' = TRUE
  /\ drivers' = Append(CleanupOld(drivers, rcClient), NewDriver)
  /\ rcClient' = Len(drivers) + 1
  /\ attempts' = Append(attempts, "pending")
  /\ UNCHANGED <<rcIsConnected, pollers, quits, rcThrew>>

\* connect(), second branch (lines 24-37): a promise polling every 100 ms
JoinsAttempt == rcIsConnecting

StartPoller ==
  /\ pollers' = Append(pollers, [attempt |-> rcClient, state |-> "pending"])
  /\ UNCHANGED <<rcClient, rcIsConnected, rcIsConnecting, drivers, attempts,
                 quits, rcThrew>>

\* a direct RedisClient.connect() call (lines 18-130), up to its return
ClientConnect ==
  /\ nConnectCalls < MaxConnects
  /\ nConnectCalls' = nConnectCalls + 1
  /\ IF rcIsConnected
       THEN /\ lastConnect' = "resolved"
            /\ UNCHANGED <<rcClient, rcIsConnected, rcIsConnecting, drivers,
                           attempts, pollers, quits, rcThrew>>
       ELSE IF JoinsAttempt
         THEN /\ lastConnect' = "poller"
              /\ StartPoller
         ELSE /\ lastConnect' = "attempt"
              /\ StartAttempt
  /\ UNCHANGED <<singletonVars, notStore>>

\* the setInterval callback of a waiting connect() call (lines 27-35)
PollerTick(p) ==
  /\ p \in 1..Len(pollers)
  /\ pollers[p].state = "pending"
  /\ rcIsConnected \/ ~rcIsConnecting
  /\ pollers' = [pollers EXCEPT ![p].state =
                   IF rcIsConnected THEN "resolved" ELSE "rejected"]
  /\ UNCHANGED <<rcClient, rcIsConnected, rcIsConnecting, drivers, attempts,
                 quits, nConnectCalls, lastConnect, rcThrew>>
  /\ UNCHANGED <<singletonVars, notStore>>

\* RedisClient.set/get/publishToStream (lines 132-136, 177-181, 191-195)
ClientOpResult(client, isConnected) ==
  IF client = 0 \/ ~isConnected
    THEN [state |-> "failed", error |-> "NotReady"]
    ELSE [state |-> "sent", error |-> "none"]

(***************************************************************************)
(* The connection state of the store client, read off the fields the code  *)
(* keeps: Closing while a disconnect() awaits quit() (lines 156-158),      *)
(* Ready when there is a driver and isConnected is set (line 67),          *)
(* Connecting while isConnecting is set (line 41), Closed when the driver  *)
(* that had become ready lost its connection (line 79), Disconnected       *)
(* otherwise.                                                              *)
(***************************************************************************)
ConnState ==
  IF quits # <<>> THEN "Closing"
  ELSE IF rcClient # 0 /\ rcIsConnected THEN "Ready"
  ELSE IF rcIsConnecting THEN "Connecting"
  ELSE IF rcClient # 0 /\ attempts[rcClient] = "resolved" THEN "Closed"
  ELSE "Disconnected"

\* a direct RedisClient.set/get/publishToStream call up to its first await
\* (lines 132-143, 177-183, 191-197): the check, then the driver command
ClientOp ==
  /\ rcOpLog' = rcOpLog \cup
       {[conn |-> ConnState,
         state |-> ClientOpResult(rcClient, rcIsConnected).state,
         error |-> ClientOpResult(rcClient, rcIsConnected).error]}
  /\ UNCHANGED <<clientVars, singletonVars, consumerVars, ctorVars, pubVars,
                 shellVars>>

\* _ensureConnected after its await (lines 176-186), then the client call
\* (lines 191, 196, 201)
OpAfterAwait(outcome, client, isConnected) ==
  IF outcome = "rejected"
    THEN [state |-> "failed", error |-> "ConnectFailed"]
    ELSE IF ~isConnected
      THEN [state |-> "failed", error |-> "NotEstablished"]
      ELSE ClientOpResult(client, isConnected)

\* .then(...).catch(err => { ...; throw err }) (lines 150-157): what the
\* chained promise settles to
ChainOutcome(outcome) == outcome

\* the .catch handler clears _connectionPromise (line 155)
CatchClears_Keeps(p) == p

CatchClears(p) == 0

\* attempt d settles: reactions of the singleton's chain, of its connect()
\* callers and of operations awaiting in _ensureConnected
SettleChain(d, outcome, client, isConnected) ==
  IF d \in chained
    THEN /\ rsPromise' =
              IF outcome = "rejected" THEN CatchClears(rsPromise) ELSE rsPromise
         /\ callers' =
              {IF c.promise = d /\ c.outcome = "pending"
                 THEN [c EXCEPT !.outcome = ChainOutcome(outcome)]
                 ELSE c : c \in callers}
         /\ ops' =
              {IF o.state = "awaiting" /\ o.awaits = d
                 THEN [o EXCEPT
                         !.state = OpAfterAwait(ChainOutcome(outcome), client,
                                                isConnected).state,
                         !.error = OpAfterAwait(ChainOutcome(outcome), client,
                                                isConnected).error]
                 ELSE o : o \in ops}
         /\ UNCHANGED <<chained, lastConfig>>
    ELSE UNCHANGED singletonVars

\* the driver emits 'ready'; onClientReady (lines 72-79) runs if attached.
\* this.client.removeListener throws when this.client is null, before
\* resolve().
OnClientReady(d) ==
  /\ rcIsConnected' = TRUE
  /\ rcIsConnecting' = FALSE
  /\ IF rcClient = 0
       THEN /\ rcThrew' = TRUE
            /\ drivers' = [drivers EXCEPT
                 ![d].status = "ready",
                 ![d].listeners = @ \ {"ready"}]
            /\ UNCHANGED <<attempts, singletonVars>>
       ELSE /\ drivers' = [drivers EXCEPT
                 ![d].status = "ready",
                 ![d].listeners =
                    IF rcClient = d THEN @ \ {"ready", "errorOnce"}
                                    ELSE @ \ {"ready"}]
            /\ attempts' = [attempts EXCEPT ![d] = "resolved"]
            /\ SettleChain(d, "resolved", rcClient, TRUE)
            /\ UNCHANGED rcThrew

DriverReady(d) ==
  /\ d \in DriverIds
  /\ drivers[d].status = "connecting"
  /\ IF "ready" \in drivers[d].listeners
       THEN OnClientReady(d)
       ELSE /\ drivers' = [drivers EXCEPT ![d].status = "ready"]
            /\ UNCHANGED <<rcIsConnected, rcIsConnecting, attempts, rcThrew,
                           singletonVars>>
  /\ UNCHANGED <<rcClient, pollers, quits, nConnectCalls, lastConnect>>
  /\ pubResult' = PublishAfterStore(pubResult, ops')
  /\ UNCHANGED notStoreNorResult

\* onErrorDuringConnect (lines 81-95): acts only for the attempt in progress
ErrorIsOfActiveAttempt(d) ==
  rcIsConnecting /\ rcClient = d /\ "ready" \in drivers[d].listeners

\* the driver emits 'error' while establishing a connection.  A driver the
\* client did not disconnect keeps retrying.  The general listener (lines
\* 112-118) only logs; it reads this.client.listeners and throws on null.
DriverError(d) ==
  /\ d \in DriverIds
  /\ drivers[d].status = "connecting"
  /\ IF "errorOnce" \in drivers[d].listeners /\ ErrorIsOfActiveAttempt(d)
       THEN /\ rcIsConnecting' = FALSE
            /\ rcIsConnected' = FALSE
            /\ drivers' = [drivers EXCEPT
                 ![d].status = "end",
                 ![d].listeners = @ \ {"ready", "errorOnce"}]
            /\ attempts' = [attempts EXCEPT ![d] = "rejected"]
            /\ SettleChain(d, "rejected", rcClient, FALSE)
       ELSE /\ drivers' = [drivers EXCEPT ![d].listeners = @ \ {"errorOnce"}]
            /\ UNCHANGED <<rcIsConnecting, rcIsConnected, attempts,
                           singletonVars>>
  /\ rcThrew' = (rcThrew \/ ("error" \in drivers[d].listeners /\ rcClient = 0))
  /\ UNCHANGED <<rcClient, pollers, quits, nConnectCalls, lastConnect>>
  /\ pubResult' = PublishAfterStore(pubResult, ops')
  /\ UNCHANGED notStoreNorResult

\* the transport of a ready driver closes; the driver reconnects by itself.
\* The 'close' listener (lines 106-110) runs if attached.
DriverClose(d) ==
  /\ d \in DriverIds
  /\ drivers[d].status = "ready"
  /\ drivers' = [drivers EXCEPT ![d].status = "connecting"]
  /\ rcIsConnected' =
       IF "close" \in drivers[d].listeners THEN FALSE ELSE rcIsConnected
  /\ UNCHANGED <<rcClient, rcIsConnecting, attempts, pollers, quits,
                 nConnectCalls, lastConnect, rcThrew>>
  /\ UNCHANGED <<singletonVars, notStore>>

\* removeAllListeners() of disconnect() (line 155)
DisconnectStrips(ds, d) == RemoveAllListeners(ds, d)

\* RedisClient.disconnect() (lines 151-175) up to its first await; `via` is
\* the caller, whose continuation runs when the call returns
Disconnect(via) ==
  /\ Len(quits) < MaxQuits
  /\ IF rcClient # 0 /\ rcIsConnected
       THEN /\ drivers' = DisconnectStrips(drivers, rcClient)
            /\ quits' = Append(quits, [driver |-> rcClient, via |-> via])
            /\ UNCHANGED <<rcClient, rcIsConnected, rcIsConnecting>>
       ELSE /\ drivers' =
                 IF rcClient = 0 THEN drivers
                 ELSE DriverDisconnect(DisconnectStrips(drivers, rcClient),
                                       rcClient)
            /\ rcClient' = 0
            /\ rcIsConnected' = FALSE
            /\ rcIsConnecting' = FALSE
            /\ UNCHANGED quits
  /\ UNCHANGED <<attempts, pollers, nConnectCalls, lastConnect, rcThrew>>

\* a direct RedisClient.disconnect() call
ClientDisconnect ==
  /\ Disconnect("client")
  /\ UNCHANGED <<singletonVars, notStore>>

QuitOutcomes == {"ok", "error"}

\* client.quit() settles and disconnect() runs to its end (lines 158-174);
\* in the catch block this.client.disconnect() throws when an overlapping
\* disconnect() already set this.client to null.  RedisSingleton.disconnect
\* then clears its promise (RedisSingleton.js line 166).
QuitDone(i, outcome) ==
  /\ i \in 1..Len(quits)
  /\ quits' = RemoveAt(quits, i)
  /\ IF outcome = "error" /\ rcClient = 0
       THEN /\ rcThrew' = TRUE
            /\ UNCHANGED <<rcClient, rcIsConnected, rcIsConnecting, drivers,
                           rsPromise>>
       ELSE /\ drivers' =
                 IF outcome = "ok"
                   THEN DriverDisconnect(drivers, quits[i].driver)
                   ELSE DriverDisconnect(drivers, rcClient)
            /\ rcClient' = 0
            /\ rcIsConnected' = FALSE
            /\ rcIsConnecting' = FALSE
            /\ rsPromise' = IF quits[i].via = "singleton" THEN 0 ELSE rsPromise
            /\ UNCHANGED rcThrew
  /\ UNCHANGED <<attempts, pollers, nConnectCalls, lastConnect>>
  /\ UNCHANGED <<chained, callers, ops, lastConfig, notStore>>

\* what the chained promise of attempt d has settled to so far
ChainState(d) ==
  IF attempts[d] = "pending" THEN "pending" ELSE ChainOutcome(attempts[d])

\* RedisSingleton.connect, lines 148-159: a new attempt and its chain.  The
\* client is never found connecting here (StoreConnectFindsNoAttempt).
InitiateConnection ==
  /\ ~JoinsAttempt
  /\ StartAttempt
  /\ rsPromise' = Len(drivers) + 1
  /\ chained' = chained \cup {Len(drivers) + 1}
  /\ UNCHANGED <<nConnectCalls, lastConnect>>

\* how a call finds the stored promise: still pending ("joined") or
\* already settled ("stale")
Found(d) == IF ChainState(d) = "pending" THEN "joined" ELSE "stale"

\* the promise a connect() call hands back when the client is not connected
\* and a promise is stored (lines 143-146)
StoredPromise == rsPromise

\* RedisSingleton.connect() (lines 137-160); the argument is not declared
\* by the method and so is not read
StoreConnect(config) ==
  /\ lastConfig' = config
  /\ IF rcIsConnected
       THEN /\ callers' = callers \cup
                 {[promise |-> 0, how |-> "connected", outcome |-> "resolved"]}
            /\ UNCHANGED <<clientVars, rsPromise, chained>>
       ELSE IF rsPromise # 0
         THEN /\ callers' = callers \cup
                   {[promise |-> StoredPromise, how |-> Found(StoredPromise),
                     outcome |-> ChainState(StoredPromise)]}
              /\ UNCHANGED <<clientVars, rsPromise, chained>>
         ELSE /\ InitiateConnection
              /\ callers' = callers \cup
                   {[promise |-> Len(drivers) + 1, how |-> "started",
                     outcome |-> "pending"]}
  /\ Cardinality(callers') <= MaxCalls
  /\ UNCHANGED <<ops, notStore>>

\* RedisSingleton.disconnect() (lines 162-168) up to client.quit()
StoreDisconnect ==
  /\ Disconnect("singleton")
  /\ rsPromise' = IF rcClient # 0 /\ rcIsConnected THEN rsPromise ELSE 0
  /\ UNCHANGED <<chained, callers, ops, lastConfig, notStore>>

\* _ensureConnected starts a connection when none is stored (lines 177-180)
EnsureConnects == TRUE

\* an operation that settles in the step of its call
OpSettled(by, awaits, how, r) ==
  [by |-> by, awaits |-> awaits, how |-> how, state |-> r.state,
   error |-> r.error]

\* an operation suspended on the promise of attempt number `awaits`
OpAwaiting(by, awaits, how) ==
  [by |-> by, awaits |-> awaits, how |-> how, state |-> "awaiting",
   error |-> "none"]

\* RedisSingleton.set/get/publishToStream (lines 189-202) up to the first
\* await that has to wait; the three methods differ only in the command.
\* `by` is the caller.
StoreOpCall(by) ==
  /\ IF rcIsConnected
       THEN /\ ops' = ops \cup
                 {OpSettled(by, 0, "connected",
                            ClientOpResult(rcClient, rcIsConnected))}
            /\ UNCHANGED <<clientVars, rsPromise, chained>>
       ELSE IF rsPromise # 0
         THEN /\ ops' = ops \cup
                   {IF ChainState(rsPromise) = "pending"
                      THEN OpAwaiting(by, rsPromise, "joined")
                      ELSE OpSettled(by, rsPromise, "stale",
                             OpAfterAwait(ChainState(rsPromise), rcClient,
                                          rcIsConnected))}
              /\ UNCHANGED <<clientVars, rsPromise, chained>>
         ELSE IF EnsureConnects
           THEN /\ InitiateConnection
                /\ ops' = ops \cup
                     {OpAwaiting(by, Len(drivers) + 1, "started")}
           ELSE /\ ops' = ops \cup
                     {OpSettled(by, 0, "refused",
                                [state |-> "failed",
                                 error |-> "NotEstablished"])}
                /\ UNCHANGED <<clientVars, rsPromise, chained>>
  /\ Cardinality(ops') <= MaxOps
  /\ UNCHANGED <<callers, lastConfig>>

\* a set/get/publishToStream call made on the singleton by the application
StoreOp == StoreOpCall(Application) /\ UNCHANGED notStore

\* the store client used directly
ClientNext ==
  \/ ClientOp
  \/ ClientConnect
  \/ ClientDisconnect
  \/ \E i \in 1..MaxQuits, outcome \in QuitOutcomes : QuitDone(i, outcome)
  \/ \E p \in 1..MaxConnects : PollerTick(p)
  \/ \E d \in 1..MaxDrivers : DriverReady(d)
  \/ \E d \in 1..MaxDrivers : DriverError(d)
  \/ \E d \in 1..MaxDrivers : DriverClose(d)

StoreSpecInit ==
  /\ WorkerInit
  /\ concurrency = 1
  /\ processOrderedByKey = FALSE
  /\ CtorIdle
  /\ StoreIdle

ClientSpec == StoreSpecInit /\ [][ClientNext]_vars

\* the store client used through the singleton, as src/lib/index.js does
StoreNext ==
  \/ \E config \in ConfigInputs : StoreConnect(config)
  \/ StoreDisconnect
  \/ StoreOp
  \/ \E i \in 1..MaxQuits, outcome \in QuitOutcomes : QuitDone(i, outcome)
  \/ \E d \in 1..MaxDrivers : DriverReady(d)
  \/ \E d \in 1..MaxDrivers : DriverError(d)
  \/ \E d \in 1..MaxDrivers : DriverClose(d)

StoreSpec == StoreSpecInit /\ [][StoreNext]_vars

Settled == {"pending", "resolved", "rejected"}

StoreTypeOK ==
  /\ rcClient \in 0..Len(drivers)
  /\ rcIsConnected \in BOOLEAN
  /\ rcIsConnecting \in BOOLEAN
  /\ Len(drivers) <= MaxDrivers
  /\ \A d \in DriverIds :
       /\ drivers[d].status \in {"connecting", "ready", "end"}
       /\ drivers[d].listeners \subseteq ConnectListeners
  /\ Len(attempts) = Len(drivers)
  /\ \A d \in DriverIds : attempts[d] \in Settled
  /\ \A p \in 1..Len(pollers) :
       /\ pollers[p].state \in Settled
       /\ pollers[p].attempt \in 0..Len(drivers)
  /\ nConnectCalls \in 0..MaxConnects
  /\ Len(quits) <= MaxQuits
  /\ \A i \in 1..Len(quits) : quits[i].driver \in DriverIds
  /\ rcThrew \in BOOLEAN
  /\ rsPromise \in 0..Len(drivers)
  /\ chained \subseteq DriverIds
  /\ \A c \in callers :
       /\ c.promise \in 0..Len(drivers)
       /\ c.outcome \in Settled
  /\ \A o \in ops :
       /\ o.state \in {"awaiting", "sent", "failed"}
       /\ o.awaits \in 0..Len(drivers)
  /\ lastConfig \in ConfigInputs

\* RedisSingleton.connect reaches redisClient.connect() (line 149) only
\* when the client has no attempt in progress
StoreConnectFindsNoAttempt ==
  (~rcIsConnected /\ rsPromise = 0) => ~rcIsConnecting

(***************************************************************************)
(* Vocabulary of the store claims.                                         *)
(***************************************************************************)
\* a connection attempt of the client is under way
AttemptInProgress ==
  rcIsConnecting /\ rcClient # 0 /\ attempts[rcClient] = "pending"

\* attempts not yet settled whose driver can still settle them
LiveAttempts ==
  {d \in DriverIds : /\ attempts[d] = "pending"
                     /\ drivers[d].status = "connecting"
                     /\ "ready" \in drivers[d].listeners}

\* the client was Ready on its current driver and the transport closed since
ConnectionLost ==
  /\ ~rcIsConnected
  /\ rcClient # 0
  /\ attempts[rcClient] = "resolved"

\* no attempt of the client has resolved so far
NoAttemptResolved == \A d \in DriverIds : attempts[d] # "resolved"

\* C14: as long as no attempt has resolved, a RedisSingleton.connect()
\* call made while an attempt is in progress creates no driver and is
\* handed the promise of that attempt; every call made so far either
\* started an attempt or joined the one in progress; and there is never
\* more than one attempt in progress.  Whenever it is called, a caller that
\* started or joined an attempt sees its promise pending while the attempt
\* is and settled as the attempt settles.
C14_CollapsesBeforeResolve ==
  [][/\ NoAttemptResolved' =>
          /\ Cardinality(LiveAttempts') <= 1
          /\ \A c \in callers' : c.how \in {"started", "joined"}
          /\ ( /\ AttemptInProgress
                /\ \A d \in DriverIds : attempts'[d] = attempts[d]
                /\ callers' # callers ) =>
               /\ drivers' = drivers
               /\ \A c \in callers' \ callers :
                    c.how = "joined" /\ c.promise = rcClient
     /\ \A c \in callers' :
          c.how \in {"started", "joined"}
            => c.outcome = ChainState(c.promise)']_vars

\* two calls were made before any attempt resolved: one started the
\* attempt, the other was handed its promise, and both saw it fail
C14_WitnessShared ==
  /\ NoAttemptResolved
  /\ \E c1, c2 \in callers :
       /\ c1.how = "started"
       /\ c2.how = "joined"
       /\ c1.promise = c2.promise
       /\ c1.outcome = "rejected"
       /\ c2.outcome = "rejected"

\* C15: after a successful connect and a loss of the connection, a
\* RedisSingleton.connect() or set/get/publishToStream call made while no
\* attempt is in progress starts a new connection attempt.
C15_LazyReconnect ==
  [][(/\ ConnectionLost
      /\ ~AttemptInProgress
      /\ (callers' # callers \/ ops' # ops))
       => AttemptInProgress']_vars

\* the driver has reconnected by itself, the store is reachable again, and
\* the operation still failed without any new attempt
C15_Witness ==
  /\ ConnectionLost
  /\ drivers[rcClient].status = "ready"
  /\ Len(drivers) = 1
  /\ \E o \in ops : o.how = "stale" /\ o.error = "NotEstablished"

\* C16: in the step in which an attempt of the singleton fails, the stored
\* promise is cleared and every caller and operation waiting on that attempt
\* sees the failure; the stored promise is never a failed one, so a later
\* connect() is never handed a failed promise.
C16_FailureClearsPromise ==
  [][/\ \A d \in DriverIds :
          (d \in chained /\ attempts[d] = "pending" /\ attempts'[d] = "rejected")
            => /\ rsPromise' = 0
               /\ \A c \in callers : c.promise = d =>
                    [c EXCEPT !.outcome = "rejected"] \in callers'
               /\ \A o \in ops : (o.awaits = d /\ o.state = "awaiting") =>
                    [o EXCEPT !.state = "failed", !.error = "ConnectFailed"]
                      \in ops'
     /\ rsPromise' # 0 => attempts'[rsPromise'] # "rejected"
     /\ \A c \in callers' :
          (c.how = "started" /\ \A c0 \in callers : c0.promise # c.promise)
            => /\ c.promise = Len(drivers) + 1
               /\ attempts'[c.promise] = "pending"]_vars

\* the first attempt failed, both of its callers saw it, and the next call
\* started a second attempt
C16_Witness ==
  /\ Len(drivers) = 2
  /\ attempts[1] = "rejected"
  /\ [promise |-> 1, how |-> "started", outcome |-> "rejected"] \in callers
  /\ [promise |-> 1, how |-> "joined", outcome |-> "rejected"] \in callers
  /\ rsPromise = 2
  /\ attempts[2] = "pending"

\* C17: a RedisSingleton.connect(config) call whose config differs from the
\* one the client was built with disconnects the existing driver and
\* replaces it by one connecting with the given config.
C17_ConnectAppliesConfig ==
  [][(/\ lastConfig' # lastConfig
      /\ lastConfig' \notin {Undefined, AmbientConfig})
       => /\ rcClient' \notin {0, rcClient}
          /\ drivers'[rcClient'].config = lastConfig'
          /\ rcClient # 0 => drivers'[rcClient].status = "end"]_vars

\* C17, second half: a connect() call made while the client is connected
\* creates no driver and leaves the client as it is.
C17_ReadyIsNoOp ==
  [][(rcIsConnected /\ lastConfig' # lastConfig)
       => /\ drivers' = drivers
          /\ rcClient' = rcClient
          /\ rcIsConnected']_vars

\* connect("h2") was called on a client connected with the ambient config,
\* which is still the only driver
C17_Witness ==
  /\ lastConfig = "h2"
  /\ rcIsConnected
  /\ Len(drivers) = 1
  /\ drivers[rcClient].config = AmbientConfig
  /\ drivers[rcClient].status = "ready"
  /\ \E c \in callers : c.how = "connected"

\* C18: a set/get/publishToStream call on a singleton whose connect() was
\* never called and which has no attempt in flight fails in the step of
\* the call, starts no connection attempt and issues no store command.
C18_NeverConnectedFails ==
  [][(callers = {} /\ ~rcIsConnecting /\ ops' # ops)
       => /\ drivers' = drivers
          /\ ~rcIsConnecting'
          /\ \A o \in ops' \ ops : o.state = "failed"]_vars

\* connect() was never called; the operation started the connection itself
\* and its command was sent when the driver became ready
C18_Witness ==
  /\ callers = {}
  /\ Len(drivers) = 1
  /\ ops = {[by |-> Application, awaits |-> 1, how |-> "started",
             state |-> "sent", error |-> "none"]}

\* drivers that are establishing or holding a connection
OpenDrivers == {d \in DriverIds : drivers[d].status # "end"}

\* the step-wise part of single flight: a RedisClient.connect() call made
\* while connected resolves at once and creates no driver; a call made
\* during an attempt creates no driver either; at most one attempt is in
\* progress and, as long as disconnect() calls do not overlap, at most one
\* driver is open.
SingleFlightStep ==
  /\ (nConnectCalls' > nConnectCalls /\ rcIsConnected)
       => (lastConnect' = "resolved" /\ drivers' = drivers)
  /\ (nConnectCalls' > nConnectCalls /\ ~rcIsConnected /\ rcIsConnecting)
       => (lastConnect' = "poller" /\ drivers' = drivers)
  /\ Cardinality(LiveAttempts') <= 1
  /\ (quits' = <<>> /\ ~rcThrew') => Cardinality(OpenDrivers') <= 1

\* a connect() call made during an attempt settles as that attempt does
PollerFollowsAttempt ==
  \A p \in 1..Len(pollers) :
    pollers[p].state # "pending"
      => pollers[p].state = attempts[pollers[p].attempt]

\* C19, the parts that hold: connect() on a connected client is a no-op
\* that creates no driver, and no interleaving of connect() calls has more
\* than one driver connection being established.
C19_SingleFlight == [][SingleFlightStep]_vars

\* C19: RedisClient.connect() is idempotent and single-flight, and a call
\* made while an attempt is in progress gets the outcome of that attempt.
C19_ConnectSingleFlight == [][SingleFlightStep /\ PollerFollowsAttempt']_vars

\* no disconnect() was ever called; the attempt succeeded, the transport
\* closed before the next 100 ms tick, and the waiting call was rejected
C19_Witness ==
  /\ Len(drivers) = 1
  /\ rcClient = 1
  /\ attempts[1] = "resolved"
  /\ \E p \in 1..Len(pollers) :
       pollers[p] = [attempt |-> 1, state |-> "rejected"]

\* C20: a RedisClient.connect() promise that is still pending can still be
\* settled: its driver is connecting with the 'ready' or the connect-time
\* 'error' listener attached.  (Listeners are attached only when the driver
\* is created, so a pending promise without them stays pending forever.)
C20_ConnectSettles ==
  \A d \in DriverIds :
    attempts[d] = "pending"
      => /\ drivers[d].status = "connecting"
         /\ drivers[d].listeners \cap {"ready", "errorOnce"} # {}

\* connect() was interrupted by disconnect(): the promise is pending, its
\* driver is closed and has no listener left
C20_Witness ==
  /\ nConnectCalls = 1
  /\ rcClient = 0
  /\ ~rcIsConnecting
  /\ attempts = <<"pending">>
  /\ drivers[1].status = "end"
  /\ drivers[1].listeners = {}
  /\ quits = <<>>

(***************************************************************************)
(* Operations on a store client that is not Ready                          *)
(***************************************************************************)
\* the calls of the log made in connection state c
OpsIn(c) == {o \in rcOpLog : o.conn = c}

NotReadyError == [state |-> "failed", error |-> "NotReady"]

Outcome(o) == [state |-> o.state, error |-> o.error]

\* C21 as stated: a set/get/publishToStream call made in any state other
\* than Ready fails with NotReady and no command reaches the driver.
C21_NotReadyFails ==
  \A o \in rcOpLog : o.conn # "Ready" => Outcome(o) = NotReadyError

\* C21, the part the code keeps: a call made while Disconnected, Connecting
\* or Closed fails with NotReady and sends nothing, and no call changes any
\* field of the client.
C21_CheckedStatesFail ==
  [][rcOpLog' # rcOpLog =>
       /\ UNCHANGED clientVars
       /\ \A o \in rcOpLog' \ rcOpLog :
            o.conn \in {"Disconnected", "Connecting", "Closed"}
              => Outcome(o) = NotReadyError]_vars

\* calls were made in each of the three states and all of them failed
C21_Witness ==
  /\ \A c \in {"Disconnected", "Connecting", "Closed"} : OpsIn(c) # {}
  /\ C21_NotReadyFails

\* a call made while disconnect() awaits quit() was handed to the driver
C21_ClosingSends ==
  \E o \in OpsIn("Closing") : o.state = "sent"

(***************************************************************************)
(* Publisher.publish(streamName, messageData, options), Publisher.js lines *)
(* 23-46, on the singleton as src/lib/index.js constructs it.  An object   *)
(* is its set of <<field, value>> pairs and lives in pubHeap; a reference  *)
(* is an index of pubHeap.  Strings are sequences of characters.           *)
(***************************************************************************)
JsObject(fields) == [kind |-> "object", fields |-> fields]
NotAnObject(kind) == [kind |-> kind, fields |-> {}]

OrderingKeyField == "_orderingKey"

StreamNameInputs == QueueNameInputs

MessageDataInputs ==
  {NotAnObject("null"), NotAnObject("undefined"), NotAnObject("number"),
   NotAnObject("string"),
   JsObject({}),
   JsObject({<<"a", <<"1">>>>}),
   JsObject({<<"a", <<"1">>>>, <<OrderingKeyField, <<"o">>>>})}

\* the options argument: left out, null, or an object whose orderingKey is
\* absent, not a string, or the string s
JsOptions(kind, str) == [kind |-> kind, s |-> str]
OptionsInputs ==
  {JsOptions(k, <<>>) : k \in {"noOptions", "nullOptions", "absent", "null",
                                "number"}}
    \cup {JsOptions("string", str) :
            str \in {<<>>, <<" ">>, <<"k">>, <<" ", "k", " ">>}}

\* lines 24 and 28: the two validations
StreamNameInvalid(streamName) ==
  streamName = NotAString \/ streamName = <<>> \/ Trim(streamName) = <<>>

\* typeof null is 'object': the test without `=== null`
MessageDataInvalid_TypeofOnly(messageData) ==
  messageData.kind \notin {"object", "null"}

MessageDataInvalid(messageData) == messageData.kind # "object"

\* line 36: the option is a string that is not blank
OrderingKeyGiven(options) ==
  options.kind = "string" /\ options.s # <<>> /\ Trim(options.s) # <<>>

\* obj[field] = value
SetField(fields, field, value) ==
  {f \in fields : f[1] # field} \cup {<<field, value>>}

HasField(fields, field) == \E f \in fields : f[1] = field

\* a publisher that writes into the object it was given
JobPayloadRef_Alias(heap) == 1

\* line 33, { ...messageData }: jobPayload is a new object
JobPayloadRef(heap) == Len(heap) + 1

NoStoreCall == NoCall

Awaiting == [status |-> "awaiting", error |-> "none"]

\* publish() up to its await (lines 23-45): what it throws or awaits, the
\* objects after it, and the publishToStream call it made
PublisherPublish(args, heap) ==
  IF StreamNameInvalid(args.streamName)
    THEN [result |-> Thrown("InvalidArgument: streamName"), heap |-> heap,
          call |-> NoStoreCall]
  ELSE IF MessageDataInvalid(args.messageData)
    THEN [result |-> Thrown("InvalidArgument: messageData"), heap |-> heap,
          call |-> NoStoreCall]
  ELSE
    LET copied == Append(heap, heap[1])
        ref == JobPayloadRef(heap)
    IN IF args.options.kind = "nullOptions"
         THEN [result |-> Thrown("TypeError: options is null"),
               heap |-> copied, call |-> NoStoreCall]
         ELSE [result |-> Awaiting,
               heap |-> IF OrderingKeyGiven(args.options)
                          THEN [copied EXCEPT ![ref] =
                                  SetField(@, OrderingKeyField,
                                           Trim(args.options.s))]
                          ELSE copied,
               call |-> [status |-> "called",
                         streamName |-> args.streamName,
                         jobPayload |-> ref]]

PubInit ==
  /\ WorkerInit
  /\ concurrency = 1
  /\ processOrderedByKey = FALSE
  /\ CtorIdle
  /\ StoreNew
  /\ pubArgs \in [status : {"called"},
                  streamName : StreamNameInputs,
                  messageData : MessageDataInputs,
                  options : OptionsInputs]
  /\ pubHeap = <<pubArgs.messageData.fields>>
  /\ pubCall = NoCall
  /\ pubResult = NoCall
  /\ ShellIdle

\* the call of publish(): RedisSingleton.publishToStream runs up to its
\* own await inside it
PublishCall ==
  /\ pubResult = NoCall
  /\ LET r == PublisherPublish(pubArgs, pubHeap)
     IN /\ pubHeap' = r.heap
        /\ pubCall' = r.call
        /\ IF r.call = NoStoreCall
             THEN UNCHANGED <<clientVars, singletonVars>>
             ELSE StoreOpCall(ThePublisher)
        /\ pubResult' = PublishAfterStore(r.result, ops')
  /\ UNCHANGED <<pubArgs, consumerVars, ctorVars, opLogVars, shellVars>>

XaddReplies == {"id", "error"}

\* the server replies to the XADD that publish() had sent; its
\* publishToStream call settles and publish() runs to its end (lines 46-51)
PubSettle(reply) ==
  /\ pubResult = Awaiting
  /\ \E o \in OpsOfPublish(ops) : o.state = "sent"
  /\ pubResult' =
       IF reply = "error"
         THEN [status |-> "rejected", error |-> "ReplyError"]
         ELSE [status |-> "resolved", error |-> "none"]
  /\ UNCHANGED <<pubArgs, pubHeap, pubCall>>
  /\ UNCHANGED <<clientVars, singletonVars, consumerVars, ctorVars, opLogVars,
                 shellVars>>

PubNext ==
  \/ PublishCall
  \/ \E reply \in XaddReplies : PubSettle(reply)
  \/ \E d \in 1..MaxDrivers : DriverReady(d)
  \/ \E d \in 1..MaxDrivers : DriverError(d)
  \/ \E d \in 1..MaxDrivers : DriverClose(d)

PubSpec == PubInit /\ [][PubNext]_vars

\* the caller's object and the payload handed to the store, as they are
CallerObject == pubHeap[1]
HandedPayload == pubHeap[pubCall.jobPayload]
PublishReturned == pubResult # NoCall
PublishSettled == pubResult # NoCall /\ pubResult # Awaiting

\* C22: publish() never mutates the caller-supplied payload object: after
\* the call, whether it succeeded or failed and whatever the orderingKey
\* option, the object has exactly the fields and values it had before.
C22_PayloadNotMutated ==
  PublishReturned => CallerObject = pubArgs.messageData.fields

\* a publish with an ordering key has settled: the key is in the payload
\* handed to the store and not in the caller's object
C22_Witness ==
  /\ PublishSettled
  /\ pubCall # NoStoreCall
  /\ HasField(HandedPayload, OrderingKeyField)
  /\ ~HasField(CallerObject, OrderingKeyField)
  /\ CallerObject = pubArgs.messageData.fields

\* the option as the caller gave it: a string with something left after
\* trimming
OptionIsKey ==
  pubArgs.options.kind = "string" /\ Trim(pubArgs.options.s) # <<>>

\* C23 as stated: the payload handed to the store has _orderingKey equal to
\* the trimmed option when the option is a string that is non-empty after
\* trimming, and has no _orderingKey field in every other case.
C23_KeyOnlyFromOption ==
  pubCall # NoStoreCall =>
    IF OptionIsKey
      THEN {f \in HandedPayload : f[1] = OrderingKeyField}
             = {<<OrderingKeyField, Trim(pubArgs.options.s)>>}
      ELSE ~HasField(HandedPayload, OrderingKeyField)

\* C23, the part the code keeps: with such an option the handed payload is
\* the caller's payload with _orderingKey set to the trimmed option, and in
\* every other case it has exactly the caller's fields.
C23_KeyAddedFromOption ==
  pubCall # NoStoreCall =>
    HandedPayload =
      IF OptionIsKey
        THEN SetField(pubArgs.messageData.fields, OrderingKeyField,
                      Trim(pubArgs.options.s))
        ELSE pubArgs.messageData.fields

\* without a usable option, a payload that came with an _orderingKey field
\* was handed to the store with it
C23_Witness ==
  /\ pubCall # NoStoreCall
  /\ ~OptionIsKey
  /\ HasField(HandedPayload, OrderingKeyField)

\* the arguments as the caller gave them
BadStreamName ==
  \/ pubArgs.streamName = NotAString
  \/ Trim(pubArgs.streamName) = <<>>

BadPayload == pubArgs.messageData.kind # "object"

StoreUntouched ==
  /\ pubCall = NoStoreCall
  /\ ops = {}
  /\ drivers = <<>>
  /\ rsPromise = 0
  /\ ~rcIsConnecting

\* C24: publish() with a stream name that is not a string, empty or blank,
\* or with a payload that is null or a scalar, fails with InvalidArgument
\* before any store call: no append is issued, no connection is attempted.
C24_InvalidFailsBeforeStore ==
  (PublishReturned /\ (BadStreamName \/ BadPayload)) =>
    /\ pubResult \in {Thrown("InvalidArgument: streamName"),
                      Thrown("InvalidArgument: messageData")}
    /\ StoreUntouched

\* a publish with a valid stream name and a null payload has failed
C24_Witness ==
  /\ PublishReturned
  /\ ~BadStreamName
  /\ pubArgs.messageData.kind = "null"
  /\ pubResult = Thrown("InvalidArgument: messageData")
  /\ StoreUntouched

(***************************************************************************)
(* The application shell, src/lib/index.js: main() (lines 70-167),         *)
(* gracefulShutdown (lines 169-212) and the signal handlers (lines         *)
(* 214-215).  A consumer is seen as the shell sees it: constructed or not, *)
(* polling or not, stopping or not, with jobs in flight or without.  The   *)
(* store is seen as gracefulShutdown and RedisClient.disconnect() see it:  *)
(* the status of the raw client (line 198) and RedisClient.isConnected     *)
(* (RedisClient.js line 156).  main awaits its example publishes one after *)
(* the other; at "publish" shMain.i is the number of them that have been   *)
(* answered, and the next one has been sent.                               *)
(***************************************************************************)
NumConsumers == 3
NumPublishes == 14      \* lines 131-157: 2 in each of 3 rounds, then 8
Consumers == 1..NumConsumers
ShutdownSignals == {"SIGINT", "SIGTERM"}

NotConstructed ==
  [constructed |-> FALSE, polling |-> FALSE, isStopping |-> FALSE,
   activeJobs |-> 0, stopReturned |-> FALSE]

\* new QueueWorker(...), lines 85, 98, 111
NewWorker == [NotConstructed EXCEPT !.constructed = TRUE]

MainAt(pc, i) == [pc |-> pc, i |-> i]

\* line 211
ExitCode(signal) == 0

\* the statuses of the raw client with which the test of lines 198-199
\* lets gracefulShutdown call disconnect()
DisconnectableStatuses == {"ready", "connecting", "reconnecting"}

\* the raw client: the status of the driver and RedisClient.isConnected
RawClient(status, isConnected) ==
  [status |-> status, isConnected |-> isConnected]

\* the client after client.disconnect() or a completed quit()
ClientEnded == RawClient("end", FALSE)

Running == shExit = NoCall

\* the consumers constructed so far of which no stop() call has returned:
\* `called` of a run are the consumers whose stop() it called
Unstopped(ws) ==
  {w \in Consumers : ws[w].constructed /\ ~ws[w].stopReturned}

Exited(signal) == [status |-> "exited", code |-> ExitCode(signal),
                   signal |-> signal]

\* gracefulShutdown from line 196 on: the stops have been awaited.
\* disconnect() is called when the status of the raw client is one of the
\* three of lines 198-199.  RedisClient.disconnect() removes the listeners and,
\* when isConnected is set, awaits quit() (RedisClient.js lines 155-158);
\* otherwise it calls client.disconnect() and returns in the same task, and
\* the process exits.
AfterStops(signal, called, ws, store, rs) ==
  IF store.status \in DisconnectableStatuses
    THEN /\ shDisconnects' = shDisconnects \cup
              {[signal |-> signal, called |-> called,
                unstopped |-> Unstopped(ws)]}
         /\ IF store.isConnected
              THEN /\ shRuns' = Append(rs, [signal |-> signal,
                                            pc |-> "quitting",
                                            called |-> called,
                                            waiting |-> {}])
                   /\ shStore' = store
                   /\ shExit' = shExit
              ELSE /\ shRuns' = rs
                   /\ shStore' = ClientEnded
                   /\ shExit' = Exited(signal)
    ELSE /\ shDisconnects' = shDisconnects
         /\ shRuns' = rs
         /\ shStore' = store
         /\ shExit' = Exited(signal)

\* QueueWorker.stop() as gracefulShutdown calls it (lines 173-184): the
\* call returns without waiting when no job is in flight
StopCalled(worker) ==
  IF worker.constructed
    THEN [worker EXCEPT !.isStopping = TRUE,
                        !.stopReturned = @ \/ worker.activeJobs = 0]
    ELSE worker

\* gracefulShutdown(signal) up to its first await that waits
GracefulShutdown(signal, ws, store) ==
  LET stopped == [w \in Consumers |-> StopCalled(ws[w])]
      called == {w \in Consumers : ws[w].constructed}
      waiting == {w \in called : ws[w].activeJobs > 0}
  IN /\ shWorkers' = stopped
     /\ IF waiting # {}
          THEN /\ shRuns' = Append(shRuns, [signal |-> signal,
                                            pc |-> "draining",
                                            called |-> called,
                                            waiting |-> waiting])
               /\ shStore' = store
               /\ UNCHANGED <<shDisconnects, shExit>>
          ELSE AfterStops(signal, called, stopped, store, shRuns)

\* the catch block of main (lines 163-166)
SetupFails(ws, store) ==
  /\ shMain' = MainAt("failed", 0)
  /\ GracefulShutdown("ERROR_SETUP", ws, store)

\* main calls jobPublisher.publish (lines 131-157): with isConnected
\* cleared _ensureConnected awaits the settled promise of the first
\* attempt and throws (RedisSingleton.js lines 171-186), and main is in its
\* catch block before any other task runs; otherwise the XADD is sent and
\* main waits for the reply
MainPublishes(i, ws) ==
  IF shStore.isConnected
    THEN /\ shMain' = MainAt("publish", i)
         /\ shWorkers' = ws
         /\ UNCHANGED <<shStore, shRuns, shDisconnects, shExit>>
    ELSE SetupFails(ws, shStore)

notShell ==
  <<consumerVars, ctorVars, clientVars, singletonVars, opLogVars, pubVars>>

\* the driver, connecting, has its TCP connection: status 'connect';
\* onTcpConnect only logs (RedisClient.js lines 97-99)
OnTcpConnect ==
  /\ Running
  /\ shStore.status = "connecting"
  /\ shStore' = [shStore EXCEPT !.status = "connect"]
  /\ UNCHANGED <<shMain, shWorkers, shRuns, shDisconnects, shExit>>
  /\ UNCHANGED notShell

\* `await redisSingleton.connect()` settles (line 74).  The driver becomes
\* ready, onClientReady sets isConnected (RedisClient.js lines 72-78) and
\* main constructs the first consumer and calls its start() (lines 85-95);
\* or the driver reports an error, onErrorDuringConnect (lines 81-94)
\* disconnects the client and main is in its catch block.
MainConnectReturn(ok) ==
  /\ Running
  /\ shMain = MainAt("connect", 0)
  /\ IF ok
       THEN /\ shStore.status = "connect"
            /\ shStore' = RawClient("ready", TRUE)
            /\ shWorkers' = [shWorkers EXCEPT ![1] = NewWorker]
            /\ shMain' = MainAt("start", 1)
            /\ UNCHANGED <<shRuns, shDisconnects, shExit>>
       ELSE /\ shStore.status \in {"connecting", "connect"}
            /\ SetupFails(shWorkers, ClientEnded)
  /\ UNCHANGED notShell

\* the driver becomes ready again after a reconnection: onClientReady was
\* registered with once() (RedisClient.js line 102) and has run, so
\* isConnected stays cleared
OnReadyAgain ==
  /\ Running
  /\ shMain # MainAt("connect", 0)
  /\ shStore.status = "connect"
  /\ shStore' = [shStore EXCEPT !.status = "ready"]
  /\ UNCHANGED <<shMain, shWorkers, shRuns, shDisconnects, shExit>>
  /\ UNCHANGED notShell

\* the transport closes and the driver schedules a reconnection: the
\* 'close' listener clears isConnected (RedisClient.js lines 106-110).
\* While main waits for the first 'ready' a failed connecting is an error,
\* MainConnectReturn(FALSE).  After disconnect() has sent quit() the close
\* ends the client and settles the quit: QuitReturns.
OnClose ==
  /\ Running
  /\ \A r \in 1..Len(shRuns) : shRuns[r].pc # "quitting"
  /\ \/ shStore.status \in {"connect", "ready"}
     \/ shStore.status = "connecting" /\ shMain # MainAt("connect", 0)
  /\ shStore' = RawClient("reconnecting", FALSE)
  /\ UNCHANGED <<shMain, shWorkers, shRuns, shDisconnects, shExit>>
  /\ UNCHANGED notShell

\* the reconnection delay of the driver is over: it connects again
Reconnect ==
  /\ Running
  /\ shStore.status = "reconnecting"
  /\ shStore' = [shStore EXCEPT !.status = "connecting"]
  /\ UNCHANGED <<shMain, shWorkers, shRuns, shDisconnects, shExit>>
  /\ UNCHANGED notShell

\* `await worker.start()` settles (lines 95, 108, 122): the consumer polls
\* unless it was stopped meanwhile, and main goes on to the next consumer
\* or to the publishes
MainStartReturn(ok) ==
  /\ Running
  /\ shMain.pc = "start"
  /\ IF ok
       THEN LET started == [shWorkers EXCEPT ![shMain.i].polling =
                                               ~shWorkers[shMain.i].isStopping]
            IN IF shMain.i < NumConsumers
                 THEN /\ shWorkers' =
                           [started EXCEPT ![shMain.i + 1] = NewWorker]
                      /\ shMain' = MainAt("start", shMain.i + 1)
                      /\ UNCHANGED <<shStore, shRuns, shDisconnects, shExit>>
                 ELSE MainPublishes(0, started)
       ELSE SetupFails(shWorkers, shStore)
  /\ UNCHANGED notShell

\* an `await jobPublisher.publish(...)` of lines 131-157 settles: main
\* calls the next publish, or is done after the last one
MainPublishReturn(ok) ==
  /\ Running
  /\ shMain.pc = "publish"
  /\ IF ok
       THEN IF shMain.i + 1 < NumPublishes
              THEN MainPublishes(shMain.i + 1, shWorkers)
              ELSE /\ shMain' = MainAt("done", 0)
                   /\ UNCHANGED <<shWorkers, shStore, shRuns,
                                  shDisconnects, shExit>>
       ELSE SetupFails(shWorkers, shStore)
  /\ UNCHANGED notShell

\* a polling consumer hands a message to its handler
JobArrives(w) ==
  /\ Running
  /\ shWorkers[w].polling
  /\ ~shWorkers[w].isStopping
  /\ shWorkers[w].activeJobs = 0
  /\ shWorkers' = [shWorkers EXCEPT ![w].activeJobs = 1]
  /\ UNCHANGED <<shMain, shStore, shRuns, shDisconnects, shExit>>
  /\ UNCHANGED notShell

\* the handler of the job in flight settles
JobSettles(w) ==
  /\ Running
  /\ shWorkers[w].activeJobs = 1
  /\ shWorkers' = [shWorkers EXCEPT ![w].activeJobs = 0]
  /\ UNCHANGED <<shMain, shStore, shRuns, shDisconnects, shExit>>
  /\ UNCHANGED notShell

\* SIGINT or SIGTERM is delivered (lines 214-215)
Signal(signal) ==
  /\ Running
  /\ Len(shRuns) < MaxSignals
  /\ GracefulShutdown(signal, shWorkers, shStore)
  /\ UNCHANGED shMain
  /\ UNCHANGED notShell

\* a stop() awaited by run r returns, the jobs drained or the wait timed
\* out; with the last one Promise.all resolves and the run goes on
StopReturns(r, w, timedOut) ==
  /\ Running
  /\ r \in 1..Len(shRuns)
  /\ w \in shRuns[r].waiting
  /\ shWorkers[w].activeJobs = 0 \/ timedOut
  /\ LET ws == [shWorkers EXCEPT ![w].stopReturned = TRUE]
     IN /\ shWorkers' = ws
        /\ IF shRuns[r].waiting = {w}
             THEN AfterStops(shRuns[r].signal, shRuns[r].called, ws,
                             shStore, RemoveAt(shRuns, r))
             ELSE /\ shRuns' = [shRuns EXCEPT ![r].waiting = @ \ {w}]
                  /\ UNCHANGED <<shStore, shDisconnects, shExit>>
  /\ UNCHANGED shMain
  /\ UNCHANGED notShell

\* quit() settles, disconnect() returns and the run exits (lines 200-211)
QuitReturns(r) ==
  /\ Running
  /\ r \in 1..Len(shRuns)
  /\ shRuns[r].pc = "quitting"
  /\ shStore' = ClientEnded
  /\ shExit' = Exited(shRuns[r].signal)
  /\ UNCHANGED <<shMain, shWorkers, shRuns, shDisconnects>>
  /\ UNCHANGED notShell

ShellInit ==
  /\ WorkerInit
  /\ concurrency = 1
  /\ processOrderedByKey = FALSE
  /\ CtorIdle
  /\ StoreNew
  /\ PubIdle
  /\ shMain = MainAt("connect", 0)
  /\ shWorkers = [w \in Consumers |-> NotConstructed]
  /\ shStore = RawClient("connecting", FALSE)
  /\ shRuns = <<>>
  /\ shDisconnects = {}
  /\ shExit = NoCall

ShellNext ==
  \/ OnTcpConnect
  \/ \E ok \in BOOLEAN : MainConnectReturn(ok)
  \/ OnReadyAgain
  \/ OnClose
  \/ Reconnect
  \/ \E ok \in BOOLEAN : MainStartReturn(ok)
  \/ \E ok \in BOOLEAN : MainPublishReturn(ok)
  \/ \E w \in Consumers : JobArrives(w)
  \/ \E w \in Consumers : JobSettles(w)
  \/ \E signal \in ShutdownSignals : Signal(signal)
  \/ \E r \in 1..(MaxSignals + 1), w \in Consumers, timedOut \in BOOLEAN :
       StopReturns(r, w, timedOut)
  \/ \E r \in 1..(MaxSignals + 1) : QuitReturns(r)

ShellSpec == ShellInit /\ [][ShellNext]_vars

\* C25: gracefulShutdown invokes redisSingleton.disconnect() only after a
\* stop() of every consumer constructed by then has returned, whatever the
\* trigger of the shutdown and however the consumers drain.
C25_StopsBeforeDisconnect ==
  \A d \in shDisconnects : d.unstopped = {}

\* C25, the part the code keeps: when disconnect() is invoked, a stop() has
\* returned for every consumer that was constructed when the shutdown began
\* (line 188 awaits them all); a consumer left out was constructed by
\* main() while the shutdown was waiting.
C25_OwnStopsBeforeDisconnect ==
  \A d \in shDisconnects : d.unstopped \cap d.called = {}

\* disconnect() was invoked while a consumer constructed by main() during
\* the drain had never been stopped
C25_Witness ==
  \E d \in shDisconnects :
    /\ d.signal \in ShutdownSignals
    /\ d.unstopped # {}
    /\ d.called # {}

SetupFailed == shMain.pc = "failed"

\* C26 as stated: the process exits with code 0 after a clean shutdown
\* triggered by a signal and with a non-zero code when setup failed
\* (connect, a consumer's start or the initial publishes threw in main).
C26_ExitCodeTellsFailure ==
  ~Running =>
    /\ (shExit.signal \in ShutdownSignals /\ ~SetupFailed) => shExit.code = 0
    /\ shExit.signal = "ERROR_SETUP" => shExit.code # 0

\* C26, the part the code keeps: a shutdown triggered by a signal, setup
\* not having failed, exits with code 0.
C26_SignalShutdownExitsZero ==
  (~Running /\ shExit.signal \in ShutdownSignals /\ ~SetupFailed)
    => shExit.code = 0

\* setup failed in main, its shutdown ran to the end and the process
\* exited with code 0
C26_Witness ==
  /\ ~Running
  /\ SetupFailed
  /\ shExit.signal = "ERROR_SETUP"
  /\ shExit.code = 0

(***************************************************************************)
(* The consumer again: keyless messages in ordered mode, job completion,   *)
(* keyed dispatch, reads that return after stop().                         *)
(***************************************************************************)
\* the delivered messages that carry no ordering key / that carry one
KeylessIds == {id \in Ids : Delivered(id) /\ ~Truthy(KeyOfId(id))}
KeyedIds == {id \in Ids : Delivered(id) /\ Truthy(KeyOfId(id))}

\* the message was handed to the handler, or waits in a FIFO
Started(id) == handlerStarts[id] > 0
Taken(id) == Started(id) \/ id \in QueuedIds

\* C27 as stated: in ordered mode a message without _orderingKey read by a
\* running consumer is handed to the handler by the poll cycle that read
\* it, is never in a per-key FIFO, never marks a key busy, and does not keep
\* the keyed messages of its batch from being enqueued and dispatched.
C27_KeylessHandledUnordered ==
  (processOrderedByKey /\ ~isStopping) =>
    /\ \A id \in KeylessIds :
         /\ Started(id)
         /\ id \notin QueuedIds
         /\ \A j \in jobs : j.jobId = id => j.key = Undefined
    /\ \A id \in KeyedIds : Taken(id)

\* C27, the part the code keeps: such a message is never in a per-key FIFO,
\* its job carries no key and marks none busy, and the busy keys are keys
\* of keyed jobs in flight.
C27_KeylessNeverKeyed ==
  processOrderedByKey =>
    /\ \A id \in KeylessIds :
         /\ id \notin QueuedIds
         /\ \A j \in jobs : j.jobId = id => j.key = Undefined
    /\ processingKeys = {j.key : j \in {i \in jobs : i.key # Undefined}}
    /\ \A j \in jobs : j.key # Undefined => j.key = KeyOfId(j.jobId)

\* a running ordered consumer read a keyless message and did not hand it to
\* the handler
C27_Witness ==
  /\ processOrderedByKey
  /\ ~isStopping
  /\ ~crashed
  /\ \E id \in KeylessIds : ~Started(id)

\* the jobs of this record's invocation (a job changes phase in place)
SameJob(a, b) == a.jobId = b.jobId /\ a.n = b.n

\* C28: whatever the outcome of a job -- handler success with ack success
\* or ack failure, handler failure -- its slot is released exactly once,
\* and for a keyed job the key leaves the busy set and keyed dispatch is
\* invoked again: the key is busy afterwards only for a job of that key
\* admitted by that dispatch, and no key is left waiting with a slot free.
C28_CompletionReleases ==
  [][\A job \in jobs :
       (\A j \in jobs' : ~SameJob(j, job)) =>
         LET admitted == {j \in jobs' : \A i \in jobs : ~SameJob(i, j)}
         IN /\ activeJobs' = activeJobs - 1 + Cardinality(admitted)
            /\ activeJobs' = Cardinality(jobs')
            /\ job.key # Undefined =>
                 (job.key \in processingKeys' =>
                    \E j \in admitted : j.key = job.key)
            /\ (processOrderedByKey /\ ~isStopping) =>
                 \A i \in 1..Len(orderingKeyQueues') :
                   \/ orderingKeyQueues'[i].key \in processingKeys'
                   \/ activeJobs' >= concurrency]_vars

\* a keyed job failed, and the next message of its key is with the handler
C28_Witness ==
  /\ processOrderedByKey
  /\ \E id \in Ids, j \in jobs :
       /\ failed[id] > 0
       /\ Truthy(KeyOfId(id))
       /\ j.key = KeyOfId(id)
       /\ j.jobId > id
       /\ \A i \in jobs : i.jobId # id

\* C29: work-conserving keyed dispatch: in ordered mode, while the consumer
\* runs, after every poll cycle and every completion no key with a
\* non-empty FIFO is idle while a slot is free.
C29_WorkConserving ==
  (processOrderedByKey /\ ~isStopping) =>
    \A i \in 1..Len(orderingKeyQueues) :
      ~KeyEligible(Worker, orderingKeyQueues[i])

\* a message waits in its key's FIFO while the pool has a free slot: its
\* key is busy
C29_Witness ==
  /\ processOrderedByKey
  /\ ~isStopping
  /\ activeJobs < concurrency
  /\ \E i \in 1..Len(orderingKeyQueues) :
       /\ Len(orderingKeyQueues[i].queue) > 0
       /\ orderingKeyQueues[i].key \in processingKeys

\* C30: a read that returns after stop() has begun leaves its batch
\* untouched: no handler invocation, nothing enqueued, nothing acked,
\* activeJobs unchanged, no poll scheduled and no read issued.
C30_LateBatchUntouched ==
  [][(isStopping /\ Len(reads') < Len(reads)) =>
       /\ UNCHANGED <<activeJobs, orderingKeyQueues, processingKeys, jobs,
                      handlerStarts, ackCount, pollTimeoutId>>
       /\ pollTimeoutId' = NoTimer
       /\ Len(reads') = Len(reads) - 1]_vars

\* a stopped consumer was handed messages and took none of them: no read
\* is outstanding, nothing runs, nothing was started or enqueued
C30_Witness ==
  /\ isStopping
  /\ reads = <<>>
  /\ jobs = {}
  /\ \E id \in Ids : Delivered(id)
  /\ \A id \in Ids : Delivered(id) => ~Taken(id) /\ ackCount[id] = 0

(***************************************************************************)
(* The poll cycle: what it asks the store for, and what an empty answer    *)
(* does.                                                                   *)
(***************************************************************************)
\* the step issues an xreadgroup
IssuesRead == Len(reads') > Len(reads)

\* the step enters _doPoll -- the poll timer fires, or start() gets past
\* xgroup -- on a consumer that is not stopping, and ends without calling
\* the store
PollsWithoutRead ==
  /\ \/ TimerFire
     \/ \E outcome \in {"OK", "BUSYGROUP"} : XGroupReturn(outcome)
  /\ PollGuard
  /\ ~IssuesRead

\* C31: read admission.  In unordered mode a poll cycle issues no read when
\* activeJobs >= concurrency -- it only reschedules, in 1 s -- and
\* otherwise asks for exactly concurrency - activeJobs messages; in ordered
\* mode it asks for exactly `concurrency` messages whatever activeJobs and
\* the FIFOs are.
C31_ReadAdmission ==
  [][/\ IssuesRead =>
          /\ reads' = Append(reads,
                IF processOrderedByKey THEN concurrency
                ELSE concurrency - activeJobs)
          /\ processOrderedByKey \/ activeJobs < concurrency
     /\ (~processOrderedByKey /\ activeJobs >= concurrency) =>
          /\ ~IssuesRead
          /\ PollsWithoutRead => pollTimeoutId' = PollFullDelayMs]_vars

\* an unordered consumer with one of two slots taken asked for one
\* message; or an ordered one with its slot taken and a message waiting
\* asked for `concurrency`
C31_Witness ==
  \/ /\ ~processOrderedByKey
     /\ concurrency = 2
     /\ activeJobs = 1
     /\ reads = <<1>>
  \/ /\ processOrderedByKey
     /\ activeJobs = concurrency
     /\ orderingKeyQueues # <<>>
     /\ reads = <<concurrency>>

\* C32: per-key mapping hygiene: every key present in orderingKeyQueues
\* has a non-empty FIFO (a key whose FIFO is emptied by a dispatch is
\* removed), and no key is present twice.
C32_NoEmptyFifo ==
  \A i \in 1..Len(orderingKeyQueues) :
    /\ Len(orderingKeyQueues[i].queue) > 0
    /\ \A j \in 1..Len(orderingKeyQueues) :
         orderingKeyQueues[j].key = orderingKeyQueues[i].key => j = i

\* the last waiting message of a key was dispatched and the mapping is
\* empty again
C32_Witness ==
  /\ processOrderedByKey
  /\ orderingKeyQueues = <<>>
  /\ \E j \in jobs : j.key # Undefined /\ j.n = 1 /\ j.jobId > 1
  /\ processingKeys # {}

C34_EmptyReadNoEffect ==
  [][(/\ ~isStopping
      /\ Len(stream) = lastDelivered
      /\ \E r \in 1..Len(reads) : PollReturn(r)) =>
       /\ UNCHANGED <<activeJobs, orderingKeyQueues, processingKeys, jobs,
                      histVars, lastDelivered>>
       /\ pollTimeoutId' = 0]_vars

\* a running consumer with a job in flight and nothing left to read has
\* its next poll scheduled and no read outstanding
C34_Witness ==
  /\ ~isStopping
  /\ groupExists
  /\ Len(stream) = lastDelivered
  /\ lastDelivered > groupStart
  /\ reads = <<>>
  /\ pollTimeoutId = PollNextDelayMs
  /\ jobs # {}

(***************************************************************************)
(* One poll loop per consumer, and what it guarantees.                     *)
(***************************************************************************)
\* the ids a step takes from the store (once the group exists, only an
\* xreadgroup moves its last-delivered id)
NewlyDelivered == (lastDelivered + 1)..lastDelivered'

\* C35: in unordered mode with start() called once, every message
\* returned by an xreadgroup that completes while the consumer runs is
\* handed to the handler in that poll cycle: the batch never exceeds the
\* free slots, so the pool-full branch is never taken.
C35_BatchFitsPool ==
  [][(~processOrderedByKey /\ nStartCalls <= 1 /\ ~isStopping /\ groupExists) =>
       /\ lastDelivered' - lastDelivered <= concurrency - activeJobs
       /\ \A id \in NewlyDelivered :
            /\ handlerStarts'[id] = handlerStarts[id] + 1
            /\ \E j \in jobs' : j.jobId = id]_vars

\* an unordered consumer started once took two messages and both are in
\* the handler
C35_Witness ==
  /\ ~processOrderedByKey
  /\ nStartCalls = 1
  /\ ~isStopping
  /\ lastDelivered = groupStart + 2
  /\ activeJobs = 2
  /\ \A id \in Ids : Delivered(id) => \E j \in jobs : j.jobId = id

\* the poll cycles in progress: reads outstanding and the timer, if set
PollCycles == Len(reads) + (IF pollTimeoutId = NoTimer THEN 0 ELSE 1)

\* C36 as stated: for any sequence of start() and stop() calls, at most
\* one poll cycle is active: never two outstanding xreadgroup calls, never
\* an outstanding xreadgroup together with a scheduled poll timer.
C36_OnePollCycle == PollCycles <= 1

\* C36, the part the code keeps: a consumer whose start() was called at
\* most once has at most one poll cycle, whatever stop() does.
C36_OnePollCyclePerStart == nStartCalls <= 1 => PollCycles <= 1

\* two reads are outstanding on a consumer that was never stopped
C36_Witness ==
  /\ nStartCalls = 2
  /\ ~isStopping
  /\ ~startRefused
  /\ Len(reads) = 2

\* a consumer started once has a read outstanding while a job runs
C36_WitnessOneStart ==
  /\ nStartCalls = 1
  /\ Len(reads) = 1
  /\ pollTimeoutId = NoTimer
  /\ jobs # {}

\* C38: busy-set consistency in ordered mode: each key in processingKeys
\* has exactly one handler in flight, the number of busy keys never
\* exceeds activeJobs, and with activeJobs = 0 the busy set is empty.
C38_BusySetConsistent ==
  processOrderedByKey =>
    /\ \A k \in processingKeys : Cardinality(JobsOfKey(k)) = 1
    /\ Cardinality(processingKeys) <= activeJobs
    /\ activeJobs = 0 => processingKeys = {}

\* both keys are busy, each with its one handler, in a pool of two
C38_Witness ==
  /\ processOrderedByKey
  /\ processingKeys = OrderingKeys
  /\ activeJobs = 2
  /\ \A k \in OrderingKeys : Cardinality(JobsOfKey(k)) = 1

(***************************************************************************)
(* Long runs of a started ordered consumer.  The stream never ends: the    *)
(* store goes on returning keyed messages.  A message is named by an id    *)
(* that is free again once its handler has completed and its xack has      *)
(* settled, and the counters kept per message are not recorded, so that    *)
(* an unending run stays within finitely many states.                      *)
(***************************************************************************)
LiveIds == 1..MaxLive

\* the ids of the messages read and not yet completed
InFlightIds == {j.jobId : j \in jobs}

FreeIds == LiveIds \ (QueuedIds \cup InFlightIds)

\* the i-th free id, in increasing order (the store's ids increase)
NthFree(i) ==
  CHOOSE id \in FreeIds : Cardinality({x \in FreeIds : x < id}) = i - 1

\* the batch xreadgroup returns: one message per ordering key of `keys`
KeyedBatch(keys) ==
  [i \in 1..Len(keys) |-> <<NthFree(i), Fields(keys[i], NthFree(i))>>]

\* the consumer once start() has resolved on an empty stream: the group
\* exists and the first xreadgroup is outstanding
KeyedInit ==
  /\ concurrency \in ConcurrencyOptions
  /\ processOrderedByKey = TRUE
  /\ isStopping = FALSE
  /\ activeJobs = 0
  /\ pollTimeoutId = NoTimer
  /\ orderingKeyQueues = <<>>
  /\ processingKeys = {}
  /\ starting = 0
  /\ nStartCalls = 1
  /\ startRefused = FALSE
  /\ lastStart = [reply |-> "OK", result |-> "resolved"]
  /\ reads = <<concurrency>>
  /\ jobs = {}
  /\ crashed = FALSE
  /\ handlerStarts = [id \in LiveIds |-> 0]
  /\ succeeded = [id \in LiveIds |-> 0]
  /\ failed = [id \in LiveIds |-> 0]
  /\ ackCount = [id \in LiveIds |-> 0]
  /\ stopPc = "idle"
  /\ stopElapsed = 0
  /\ stopInFlight = {}
  /\ stream = <<>>
  /\ groupExists = TRUE
  /\ groupStart = 0
  /\ lastDelivered = 0
  /\ CtorIdle
  /\ StoreIdle

\* _doPoll, lines 150-213: xreadgroup returns up to COUNT keyed messages
KeyedPollReturn(keys) ==
  /\ ~crashed
  /\ reads # <<>>
  /\ Len(keys) <= Min(reads[1], Cardinality(FreeIds))
  /\ LET messages == KeyedBatch(keys)
         fresh == {messages[i][1] : i \in 1..Len(messages)}
         w == [Worker EXCEPT !.handlerStarts =
                 [id \in LiveIds |-> IF id \in fresh THEN 0 ELSE @[id]]]
     IN /\ reads' = RemoveAt(reads, 1)
        /\ Commit(IF Len(messages) > 0 THEN HandleBatch(w, messages) ELSE w)
        /\ pollTimeoutId' = ScheduleNextPoll(PollNextDelayMs, pollTimeoutId)
  /\ UNCHANGED <<notWorker, optVars, crashed, isStopping, starting, startVars,
                 succeeded, failed, ackCount, stopVars, storeVars>>

\* _executeJob, lines 259-276: the handler settles
KeyedHandlerDone(job, outcome) ==
  /\ ~crashed
  /\ job \in jobs
  /\ job.phase = "handler"
  /\ IF AcksAfter(outcome)
     THEN /\ jobs' = (jobs \ {job}) \cup {[job EXCEPT !.phase = "ack"]}
          /\ UNCHANGED <<activeJobs, orderingKeyQueues, processingKeys,
                         handlerStarts>>
     ELSE Commit(JobFinally(Worker, job))
  /\ IF CatchThrows(outcome)
     THEN crashed' \in UnhandledRejectionEnds
     ELSE crashed' = FALSE
  /\ UNCHANGED <<notWorker, optVars, isStopping, pollTimeoutId, starting,
                 reads, startVars, succeeded, failed, ackCount, stopVars,
                 storeVars>>

KeyedNext ==
  \/ \E n \in 0..concurrency :
       \E keys \in [1..n -> OrderingKeys] : KeyedPollReturn(keys)
  \/ TimerFire
  \/ \E job \in jobs, outcome \in HandlerOutcomes : KeyedHandlerDone(job, outcome)
  \/ \E job \in jobs, outcome \in {"OK", "ERR"} : AckDone(job, outcome)

\* timers fire, the handler of every message terminates, every xack
\* settles; the store returns what it likes, when it likes
KeyedSpec ==
  /\ KeyedInit
  /\ [][KeyedNext]_vars
  /\ WF_vars(TimerFire)
  /\ \A id \in LiveIds :
       /\ WF_vars(\E job \in jobs, outcome \in HandlerOutcomes :
                    job.jobId = id /\ KeyedHandlerDone(job, outcome))
       /\ WF_vars(\E job \in jobs, outcome \in {"OK", "ERR"} :
                    job.jobId = id /\ AckDone(job, outcome))

\* message id waits in a per-key FIFO
Waiting(id) == id \in QueuedIds

\* C37 as stated: no starvation across keys.  In ordered mode, while the
\* consumer runs (the process has not ended) and every handler terminates,
\* every message placed in a per-key FIFO is eventually handed to the
\* handler, also with fewer slots than active keys and with other keys
\* receiving new messages.
C37_NoStarvation ==
  \A id \in LiveIds : Waiting(id) ~> (~Waiting(id) \/ crashed)

\* C37, the part the code keeps: with a slot for every key, every waiting
\* message is eventually handed to the handler.
C37_NoStarvationWithSlotPerKey ==
  \A id \in LiveIds :
    (Waiting(id) /\ concurrency >= Cardinality(OrderingKeys))
      ~> (~Waiting(id) \/ crashed)

\* one slot, taken by a job of key A; A's FIFO, first in the Map, has a
\* message waiting, and behind it B's
C37_Witness ==
  /\ concurrency = 1
  /\ activeJobs = 1
  /\ Len(orderingKeyQueues) = 2
  /\ orderingKeyQueues[1].key \in processingKeys
  /\ orderingKeyQueues[2].key \notin processingKeys
  /\ ~crashed

(***************************************************************************)
(* An ordered consumer with two slots, started on an empty stream, and the *)
(* producers that append to the stream while it runs.  With both slots     *)
(* taken a batch of two can hold a keyless message in front of a keyed     *)
(* one.                                                                    *)
(***************************************************************************)
BatchedIds == 1..MaxBatched

\* the consumer once start() has resolved: the group exists and the first
\* xreadgroup (COUNT = concurrency, line 145) is outstanding
BatchedInit ==
  /\ concurrency = 2
  /\ processOrderedByKey = TRUE
  /\ isStopping = FALSE
  /\ activeJobs = 0
  /\ pollTimeoutId = NoTimer
  /\ orderingKeyQueues = <<>>
  /\ processingKeys = {}
  /\ starting = 0
  /\ nStartCalls = 1
  /\ startRefused = FALSE
  /\ lastStart = [reply |-> "OK", result |-> "resolved"]
  /\ reads = <<concurrency>>
  /\ jobs = {}
  /\ crashed = FALSE
  /\ handlerStarts = [id \in BatchedIds |-> 0]
  /\ succeeded = [id \in BatchedIds |-> 0]
  /\ failed = [id \in BatchedIds |-> 0]
  /\ ackCount = [id \in BatchedIds |-> 0]
  /\ stopPc = "idle"
  /\ stopElapsed = 0
  /\ stopInFlight = {}
  /\ stream = <<>>
  /\ groupExists = TRUE
  /\ groupStart = 0
  /\ lastDelivered = 0
  /\ CtorIdle
  /\ StoreIdle

\* a producer appends a message (XADD)
BatchedPublish(k) ==
  /\ Len(stream) < MaxBatched
  /\ stream' = Append(stream, Fields(k, Len(stream) + 1))
  /\ UNCHANGED <<notWorker, optVars, workerVars, startVars, histVars, stopVars,
                 groupExists, groupStart, lastDelivered>>

BatchedNext ==
  \/ \E k \in OrderingKeys \cup {Undefined} : BatchedPublish(k)
  \/ TimerFire
  \/ \E r \in 1..Len(reads) : PollReturn(r)
  \/ \E r \in 1..Len(reads) : PollError(r)
  \/ \E job \in jobs, outcome \in HandlerOutcomes : HandlerDone(job, outcome)
  \/ \E job \in jobs, outcome \in {"OK", "ERR"} : AckDone(job, outcome)

BatchedSpec == BatchedInit /\ [][BatchedNext]_vars

\* C3, the part the code keeps: in ordered mode, when the handler of a
\* message starts, no earlier message of the same key is waiting in the
\* key's FIFO: the messages a FIFO has taken in are started in stream
\* order.
C3_QueuedStartOrder ==
  [][processOrderedByKey =>
       \A m1, m2 \in 1..Len(stream) :
         ( /\ handlerStarts'[m2] > handlerStarts[m2]
           /\ m1 < m2
           /\ Truthy(KeyOfId(m1))
           /\ KeyOfId(m1) = KeyOfId(m2) )
         => m1 \notin QueuedIds']_vars

\* both slots were taken when a batch with a keyless message in front of a
\* message of key k arrived; that message was delivered and never put in
\* the FIFO, and the handler of a later message of k has started
C3_Overtaken ==
  /\ processOrderedByKey
  /\ ~crashed
  /\ \E m1, m2 \in 1..Len(stream) :
       /\ m1 < m2
       /\ Delivered(m1)
       /\ Truthy(KeyOfId(m1))
       /\ KeyOfId(m1) = KeyOfId(m2)
       /\ handlerStarts[m1] = 0
       /\ m1 \notin QueuedIds
       /\ handlerStarts[m2] > 0

(***************************************************************************)
(* One name, two users: a program gives the same string to               *)
(* Publisher.publish and to the QueueWorker constructor.                   *)
(***************************************************************************)
NameInit ==
  /\ WorkerInit
  /\ concurrency = 1
  /\ processOrderedByKey = FALSE
  /\ StoreNew
  /\ ShellIdle
  /\ pubArgs \in [status : {"called"},
                  streamName : StreamNameInputs,
                  messageData : MessageDataInputs,
                  options : OptionsInputs]
  /\ pubHeap = <<pubArgs.messageData.fields>>
  /\ pubCall = NoCall
  /\ pubResult = NoCall
  /\ ctorArgs \in [status : {"called"},
                   redisClient : {"streams"},
                   queueName : {pubArgs.streamName},
                   jobHandler : {"function"},
                   concurrency : {Absent, JsInt(1)},
                   processOrderedByKey : BOOLEAN]
  /\ ctorResult = NoCall

NameNext == PubNext \/ Construct

NameSpec == NameInit /\ [][NameNext]_vars

\* the stream XADD is sent to (Publisher.js line 45, part_001 line 142)
PublishedTo == pubCall.streamName

\* the stream the consumer's XGROUP, XREADGROUP and XACK name
ReadFrom == ctorResult.queueName

\* both accepted the name
BothAccept == pubCall.status = "called" /\ ctorResult.status = "constructed"

\* C39 as stated: Publisher and Consumer agree on the stream a name
\* addresses: for every name accepted by both, also one with leading or
\* trailing whitespace, publish(s, ...) appends to the stream a consumer
\* constructed with s reads from.
C39_SameStream == BothAccept => PublishedTo = ReadFrom

\* C39, the part the code keeps: they agree on every accepted name that
\* has no whitespace around it.
C39_SameStreamIfTrimmed ==
  (BothAccept /\ Trim(pubArgs.streamName) = pubArgs.streamName) =>
    PublishedTo = ReadFrom

\* the message was appended to " q " and the consumer reads "q"
C39_Witness ==
  /\ BothAccept
  /\ pubResult.status = "resolved"
  /\ PublishedTo = <<" ", "q", " ">>
  /\ ReadFrom = <<"q">>

\* the message was appended to the stream the consumer reads
C39_WitnessAgree ==
  /\ BothAccept
  /\ pubResult.status = "resolved"
  /\ PublishedTo = <<"q", " ", "x">>
  /\ ReadFrom = PublishedTo

\* C40 as stated: connection flag consistency of a RedisClient, for any
\* interleaving of connect(), disconnect() and driver events: isConnected
\* and isConnecting are never both true, and isConnected implies that a
\* driver handle exists (client is not null).
C40_FlagsConsistent ==
  /\ ~(rcIsConnected /\ rcIsConnecting)
  /\ rcIsConnected => rcClient # 0

\* the first half alone
C40_NeverBothFlags == ~(rcIsConnected /\ rcIsConnecting)

\* the second half alone
C40_ConnectedHasClient == rcIsConnected => rcClient # 0

\* a driver became ready after an overlapping disconnect() had set client
\* to null: isConnected is true without a driver handle, and the listener
\* threw on this.client.removeListener
C40_Witness ==
  /\ rcIsConnected
  /\ ~rcIsConnecting
  /\ rcClient = 0
  /\ rcThrew
  /\ quits = <<>>


====
